---------------------------- MODULE Spec2Model ----------------------------
(***************************************************************************)
(* A model of the MSF referrals tools:                                     *)
(*   - Convert-CSV-To-SQLite.py  (legacy CSV -> SQLite import),            *)
(*   - Convert-SQLite-To-CSV.py  (export back to the legacy layout),       *)
(*   - MSFReferrals.py           (the dashboard's sessions, its lock file  *)
(*                                and its write operations),               *)
(*   - Preprocess-CSV.py         (the clean-up pass before the import).    *)
(*                                                                         *)
(* Text is modelled as sequences of one-character strings, so that strip,  *)
(* lower, substring search, strptime and strftime are computed and not     *)
(* assumed.  Python's None is the value None below.  An Optional[int] is   *)
(* <<>> (None) or <<n>>.                                                   *)
(*                                                                         *)
(* Timestamps: every timestamp of the model is a midnight shifted by a     *)
(* whole-hour UTC offset, hence a multiple of 3600 seconds; the model      *)
(* stores epoch seconds divided by 3600 (TLC's integers are 32 bits wide,  *)
(* Python's are unbounded).                                                *)
(***************************************************************************)
EXTENDS Integers, Sequences, FiniteSets, TLC

VARIABLES
    \* ---- the import and the dashboard (specification Spec)
    rows,             \* list(csv.DictReader(f)): the source rows
    pc,               \* "import" | "crashed" | "dashboard"
    row_count,        \* rows read so far
    inserted_count,   \* referrals inserted so far
    skipped_count,    \* "Skipping empty row" lines printed so far
    referrals,        \* table referrals, in referralID order
    attempt_history,  \* table attempt_history, in id order
    seq_referrals,    \* sqlite_sequence of referrals (AUTOINCREMENT)
    is_read_only,     \* the dashboard's global is_read_only
    current_user,     \* the dashboard's global current_user
    lock_owner,       \* the dashboard's global lock_owner
    lock_file,        \* DB/referrals.lock: absent, or its user and timestamp
    now,              \* datetime.now(), in hours
    result,           \* what the last exposed function returned
    \* ---- the environment of the date conversions
    tz,               \* local UTC offset in hours
    platform,         \* "posix" | "windows"
    \* ---- one row through the classifier (specification SpecRow)
    row,
    row_out,
    \* ---- one row through preprocess_csv (specification SpecPre)
    idx,              \* the row's line number in the CSV file
    cleaned_rows,     \* the rows appended to cleaned_rows
    changes,          \* the dict changes
    ppc,              \* "off" | "read" | "skipped" | "raised" | "cleaned" | "imported"
    \* ---- one row exported and imported again (specification SpecRound)
    exported_row,     \* the row convert_sqlite_to_csv writes, <<>> before
    reimported,       \* what the import makes of the exported row
    \* ---- the dashboard's CSV export (specification SpecExport)
    csv_file,         \* the file export_to_csv wrote, absent before
    \* ---- two dashboard instances on one lock file (specification SpecRace)
    instances,        \* each instance's globals and its position in login
    \* ---- the KPI dashboard's single-instance guard (specification SpecKpi)
    kpi_instances,    \* each KPI dashboard process: its position
    kpi_lock_file,    \* .msf_dashboard_<user>.lock: absent, or pid and mtime
    kpi_time,         \* time.time(), in seconds
    \* ---- the date conversions (specifications SpecDate, SpecOrder)
    date_str,
    date_str2,
    ts,
    ts2,
    date_out,
    dpc

vars == <<rows, pc, row_count, inserted_count, skipped_count, referrals,
          attempt_history, seq_referrals, is_read_only, current_user,
          lock_owner, lock_file, now, result, tz, platform,
          row, row_out, idx, cleaned_rows, changes, ppc,
          exported_row, reimported, csv_file, instances,
          kpi_instances, kpi_lock_file, kpi_time,
          date_str, date_str2, ts, ts2, date_out, dpc>>

sessionVars == <<current_user, lock_owner, lock_file, now, result>>
importVars == <<rows, pc, row_count, inserted_count, skipped_count, referrals,
                attempt_history, seq_referrals, is_read_only, current_user,
                lock_owner, lock_file, now, result>>
preVars    == <<idx, cleaned_rows, changes, ppc>>
roundVars  == <<exported_row, reimported>>
exportVars == <<csv_file>>
raceVars   == <<instances>>
kpiVars    == <<kpi_instances, kpi_lock_file, kpi_time>>
\* what the import and the dashboard's one-instance handlers never touch
rowVars    == <<row, row_out, idx, cleaned_rows, changes, ppc,
                exported_row, reimported, csv_file, instances,
                kpi_instances, kpi_lock_file, kpi_time>>
dateVars   == <<date_str, date_str2, ts, ts2, date_out, dpc>>

-----------------------------------------------------------------------------
(* Python values *)

\* Python's None where a str is expected: no character sequence, since every
\* character is a one-letter string.
None == <<"None">>

NoInt == <<>>
Some(n) == <<n>>

-----------------------------------------------------------------------------
(* str: strip, lower, in *)

Whitespace == {" ", "\t"}

UpperLetters == <<"A","B","C","D","E","F","G","H","I","J","K","L","M",
                  "N","O","P","Q","R","S","T","U","V","W","X","Y","Z">>
LowerLetters == <<"a","b","c","d","e","f","g","h","i","j","k","l","m",
                  "n","o","p","q","r","s","t","u","v","w","x","y","z">>

LowerChar(c) ==
    IF \E i \in 1..26 : UpperLetters[i] = c
    THEN LowerLetters[CHOOSE i \in 1..26 : UpperLetters[i] = c]
    ELSE c

\* str.lower()
Lower(s) == [i \in 1..Len(s) |-> LowerChar(s[i])]

\* str.strip()
Strip(s) ==
    LET keep == {i \in 1..Len(s) : s[i] \notin Whitespace}
    IN  IF keep = {} THEN <<>>
        ELSE LET lo == CHOOSE i \in keep : \A j \in keep : i <= j
                 hi == CHOOSE i \in keep : \A j \in keep : j <= i
             IN  SubSeq(s, lo, hi)

\* t in s
Contains(s, t) ==
    \E i \in 0..(Len(s) - Len(t)) : SubSeq(s, i + 1, i + Len(t)) = t

-----------------------------------------------------------------------------
(* datetime: the proleptic Gregorian calendar, as Python's datetime.py *)

Digits == <<"0","1","2","3","4","5","6","7","8","9">>

IsDigit(c) == \E i \in 1..10 : Digits[i] = c

DigitVal(c) == (CHOOSE i \in 1..10 : Digits[i] = c) - 1

IsNumber(s) == Len(s) > 0 /\ \A i \in 1..Len(s) : IsDigit(s[i])

RECURSIVE NumVal(_)
NumVal(s) ==
    IF Len(s) = 0 THEN 0
    ELSE 10 * NumVal(SubSeq(s, 1, Len(s) - 1)) + DigitVal(s[Len(s)])

\* the C locale's abbreviated month names, lower-cased (strptime's %b
\* matches them ignoring case)
MonthAbbr == << <<"j","a","n">>, <<"f","e","b">>, <<"m","a","r">>,
               <<"a","p","r">>, <<"m","a","y">>, <<"j","u","n">>,
               <<"j","u","l">>, <<"a","u","g">>, <<"s","e","p">>,
               <<"o","c","t">>, <<"n","o","v">>, <<"d","e","c">> >>

\* strftime's %b
MonthName == << <<"J","a","n">>, <<"F","e","b">>, <<"M","a","r">>,
               <<"A","p","r">>, <<"M","a","y">>, <<"J","u","n">>,
               <<"J","u","l">>, <<"A","u","g">>, <<"S","e","p">>,
               <<"O","c","t">>, <<"N","o","v">>, <<"D","e","c">> >>

IsLeap(y) == y % 4 = 0 /\ (y % 100 # 0 \/ y % 400 = 0)

DaysInMonthTable == <<31, 28, 31, 30, 31, 30, 31, 31, 30, 31, 30, 31>>
DaysBeforeMonthTable == <<0, 31, 59, 90, 120, 151, 181, 212, 243, 273, 304, 334>>

DaysInMonth(y, m) ==
    IF m = 2 /\ IsLeap(y) THEN 29 ELSE DaysInMonthTable[m]

DaysBeforeMonth(y, m) ==
    DaysBeforeMonthTable[m] + (IF m > 2 /\ IsLeap(y) THEN 1 ELSE 0)

DaysBeforeYear(y) ==
    (y - 1) * 365 + ((y - 1) \div 4) - ((y - 1) \div 100) + ((y - 1) \div 400)

\* datetime.toordinal(): 0001-01-01 is day 1
Ymd2Ord(y, m, d) == DaysBeforeYear(y) + DaysBeforeMonth(y, m) + d

\* datetime(1970, 1, 1).toordinal()
EpochOrdinal == Ymd2Ord(1970, 1, 1)

\* datetime._ord2ymd
Ord2Ymd(ord) ==
    LET n0   == ord - 1
        n400 == n0 \div 146097
        r400 == n0 % 146097
        n100 == r400 \div 36524
        r100 == r400 % 36524
        n4   == r100 \div 1461
        r4   == r100 % 1461
        n1   == r4 \div 365
        n    == r4 % 365
        year == n400 * 400 + 1 + n100 * 100 + n4 * 4 + n1
    IN  IF n1 = 4 \/ n100 = 4
        THEN [y |-> year - 1, m |-> 12, d |-> 31]
        ELSE LET leap  == n1 = 3 /\ (n4 # 24 \/ n100 = 3)
                 m0    == (n + 50) \div 32
                 prec0 == DaysBeforeMonthTable[m0]
                            + (IF m0 > 2 /\ leap THEN 1 ELSE 0)
                 month == IF prec0 > n THEN m0 - 1 ELSE m0
                 prec  == IF prec0 > n
                          THEN prec0 - (DaysInMonthTable[month]
                                 + (IF month = 2 /\ leap THEN 1 ELSE 0))
                          ELSE prec0
             IN  [y |-> year, m |-> month, d |-> n - prec + 1]

\* the places of "-" in s
DashPos(s) == {i \in 1..Len(s) : s[i] = "-"}

\* the three parts of a string with exactly two "-", else <<>>
DashParts(s) ==
    LET ps == DashPos(s)
    IN  IF Cardinality(ps) # 2 THEN <<>>
        ELSE LET p1 == CHOOSE i \in ps : \A j \in ps : i <= j
                 p2 == CHOOSE i \in ps : \A j \in ps : j <= i
             IN  << SubSeq(s, 1, p1 - 1), SubSeq(s, p1 + 1, p2 - 1),
                    SubSeq(s, p2 + 1, Len(s)) >>

\* strptime's %d: 3[0-1] | [1-2]\d | 0[1-9] | [1-9] | " "[1-9]
DayField(s) ==
    IF IsNumber(s) /\ Len(s) <= 2 /\ NumVal(s) >= 1 /\ NumVal(s) <= 31
    THEN NumVal(s)
    ELSE IF Len(s) = 2 /\ s[1] = " " /\ IsDigit(s[2]) /\ DigitVal(s[2]) >= 1
         THEN DigitVal(s[2])
         ELSE 0

\* strptime's %b, ignoring case: 1..12, 0 when no month matches
AbbrField(s) ==
    IF \E m \in 1..12 : MonthAbbr[m] = Lower(s)
    THEN CHOOSE m \in 1..12 : MonthAbbr[m] = Lower(s)
    ELSE 0

\* strptime's %m: 1[0-2] | 0[1-9] | [1-9]
MonthField(s) ==
    IF IsNumber(s) /\ Len(s) <= 2 /\ NumVal(s) >= 1 /\ NumVal(s) <= 12
    THEN NumVal(s)
    ELSE 0

\* strptime's %y: two digits; 69..99 are 1969..1999 and 00..68 are 2000..2068
\* (CPython's _strptime.py, the POSIX rule).  0 when the field is malformed.
YearField2(s) ==
    IF IsNumber(s) /\ Len(s) = 2
    THEN (IF NumVal(s) <= 68 THEN 2000 + NumVal(s) ELSE 1900 + NumVal(s))
    ELSE 0

\* strptime's %Y: four digits; the year 0000 is no datetime year
YearField4(s) ==
    IF IsNumber(s) /\ Len(s) = 4 THEN NumVal(s) ELSE 0

\* what strptime gives: ok = FALSE stands for its ValueError
NoDate == [ok |-> FALSE, y |-> 0, m |-> 0, d |-> 0]

MkDate(y, m, d) ==
    IF y >= 1 /\ m >= 1 /\ d >= 1 /\ d <= DaysInMonth(y, m)
    THEN [ok |-> TRUE, y |-> y, m |-> m, d |-> d]
    ELSE NoDate

\* datetime.strptime(s, '%d-%b-%y')
StrptimeDMY(s) ==
    LET p == DashParts(s)
    IN  IF p = <<>> THEN NoDate
        ELSE IF AbbrField(p[2]) = 0 THEN NoDate
        ELSE MkDate(YearField2(p[3]), AbbrField(p[2]), DayField(p[1]))

\* datetime.strptime(s, '%Y-%m-%d')
StrptimeISO(s) ==
    LET p == DashParts(s)
    IN  IF p = <<>> THEN NoDate
        ELSE IF MonthField(p[2]) = 0 THEN NoDate
        ELSE MkDate(YearField4(p[1]), MonthField(p[2]), DayField(p[3]))

-----------------------------------------------------------------------------
(* datetime.timestamp() and datetime.fromtimestamp() of a naive datetime *)

\* hours from the epoch to local midnight of a date, read as UTC:
\* (date_obj - datetime(1970, 1, 1)).total_seconds() / 3600
NaiveHours(d) == (Ymd2Ord(d.y, d.m, d.d) - EpochOrdinal) * 24

\* the first and the last hour datetime can represent (years 1..9999)
MinHour == (1 - EpochOrdinal) * 24
MaxHour == (Ymd2Ord(9999, 12, 31) - EpochOrdinal) * 24 + 23

Raise(e) == [exc |-> e, val |-> 0]
Return(v) == [exc |-> "none", val |-> v]

\* time.localtime(u) read back as a naive datetime: Windows' localtime
\* rejects a negative time_t (OSError); a local year outside 1..9999 is a
\* ValueError ("year 0 is out of range").
LocalTime(u) ==
    IF platform = "windows" /\ u < 0 THEN Raise("OSError")
    ELSE IF u + tz < MinHour \/ u + tz > MaxHour THEN Raise("ValueError")
    ELSE Return(u + tz)

\* datetime.timestamp() of a naive datetime (CPython's local_to_seconds):
\* it solves t = local(u) for u, probing local(t), local(t - a) and, to
\* look for a fold, local(t - a - 24h).
Timestamp(d) ==
    LET t  == NaiveHours(d)
        l0 == LocalTime(t)
        a  == l0.val - t
        u1 == t - a
        l1 == LocalTime(u1)
        u2 == u1 - 24
        l2 == LocalTime(u2)
    IN  IF l0.exc # "none" THEN l0
        ELSE IF l1.exc # "none" THEN l1
        ELSE IF l2.exc # "none" THEN l2
        ELSE Return(u1)

\* int(date_obj.timestamp()), and on OSError or OverflowError the delta
\* from the epoch; any other exception passes through
TimestampOrDelta(d) ==
    LET r == Timestamp(d)
    IN  IF r.exc = "OSError" THEN Return(NaiveHours(d)) ELSE r

\* Convert-CSV-To-SQLite.py parse_date_to_timestamp
parse_date_to_timestamp(s) ==
    IF s = None \/ s = <<>> \/ Strip(s) = <<>> THEN NoInt
    ELSE LET dmy == StrptimeDMY(Strip(s))
             iso == StrptimeISO(Strip(s))
             r1  == TimestampOrDelta(dmy)
             r2  == TimestampOrDelta(iso)
         IN  IF dmy.ok /\ r1.exc = "none" THEN Some(r1.val)
             ELSE IF iso.ok /\ r2.exc = "none" THEN Some(r2.val)
             ELSE NoInt

\* two decimal digits, zero padded
TwoDigits(n) == << Digits[((n \div 10) % 10) + 1], Digits[(n % 10) + 1] >>

\* dt.strftime('%d-%b-%y')
StrftimeDMY(d) ==
    TwoDigits(d.d) \o <<"-">> \o MonthName[d.m] \o <<"-">> \o TwoDigits(d.y % 100)

\* datetime.fromtimestamp(timestamp): the local date of an instant
FromTimestamp(t) ==
    LET l == LocalTime(t)
    IN  IF l.exc # "none" THEN [ok |-> FALSE, y |-> 0, m |-> 0, d |-> 0]
        ELSE LET ymd == Ord2Ymd((l.val \div 24) + EpochOrdinal)
             IN  [ok |-> TRUE, y |-> ymd.y, m |-> ymd.m, d |-> ymd.d]

\* Convert-SQLite-To-CSV.py timestamp_to_date; t is an Optional[int]
timestamp_to_date(t) ==
    IF t = NoInt \/ t[1] = 0 THEN <<>>
    ELSE LET dt == FromTimestamp(t[1])
         IN  IF dt.ok THEN StrftimeDMY(dt) ELSE <<>>

-----------------------------------------------------------------------------
(* Convert-CSV-To-SQLite.py: one source row *)

\* The legacy header, in file order.  Of the 28 columns the model keeps the
\* ones the status, the type and the attempts are derived from, the
\* names, the date received, the first and the last two.  Every column
\* left out lies before "Notes", so a row that is cut short has None in
\* "Notes" whenever it has None in one of them.
Header == << "PID",
             "LAST NAME",
             "FIRST NAME",
             "New or Returning",
             "Date Referral Received",
             "1st Attempt to reach Patient/Referring MD",
             "Email",
             "Comments",
             "2nd Attempt to reach Patient/Referring MD",
             "Type of Contact",
             "Comments2",
             "3rd Attempt to reach Patient/Referring MD",
             "Type of Contact3",
             "Comments4",
             "Referral Complete",
             "Date Complete Information received",
             "Notes",
             "Date" >>

ColumnIndex(col) == CHOOSE i \in 1..Len(Header) : Header[i] = col

\* row.get(col, ''): csv.DictReader gives every header column a key, and
\* fills the columns a short row lacks with None (restval), so the default
\* '' is never used.
Get(r, col) ==
    IF ColumnIndex(col) <= Len(r) THEN r[ColumnIndex(col)] ELSE None

\* the columns the loop body calls .strip() on without a guard, in the
\* order it reads them (lines 266-450); None there is an AttributeError
StrippedColumns == << "LAST NAME",
                      "Referral Complete",
                      "1st Attempt to reach Patient/Referring MD",
                      "Date Complete Information received",
                      "New or Returning",
                      "Comments",
                      "2nd Attempt to reach Patient/Referring MD",
                      "Comments2",
                      "3rd Attempt to reach Patient/Referring MD",
                      "Comments4",
                      "PID",
                      "FIRST NAME",
                      "Notes" >>

\* line 266: the row is skipped ("Skipping empty row")
RowSkipped(r) ==
    /\ Get(r, "LAST NAME") # None
    /\ Strip(Get(r, "LAST NAME")) = <<>>

\* the loop body raises AttributeError: 'NoneType' object has no attribute
\* 'strip'
RowRaises(r) ==
    \/ Get(r, "LAST NAME") = None
    \/ /\ ~RowSkipped(r)
       /\ \E i \in 1..Len(StrippedColumns) : Get(r, StrippedColumns[i]) = None

\* lines 279-284 with the two tests exchanged: the first attempt decides
\* before the complete information does
StatusFirstAttemptWins(old_status, has_first_attempt, has_complete_info) ==
    IF old_status = <<"C","o","m","p","l","e","t","e">> THEN "Completed"
    ELSE IF old_status \in { <<"C","a","n","c","e","l","l","e","d">>, <<"D","e","f","e","r","r","e","d">> } THEN "Deferred"
    ELSE IF old_status = <<"P","e","n","d","i","n","g">>
         THEN (IF has_first_attempt THEN "Pending"
               ELSE IF has_complete_info THEN "Info Received"
               ELSE "New")
    ELSE "New"

\* lines 270-286
Status(old_status, has_first_attempt, has_complete_info) ==
    IF old_status = <<"C","o","m","p","l","e","t","e">> THEN "Completed"
    ELSE IF old_status \in { <<"C","a","n","c","e","l","l","e","d">>,
                             <<"D","e","f","e","r","r","e","d">> } THEN "Deferred"
    ELSE IF old_status = <<"P","e","n","d","i","n","g">>
         THEN (IF has_complete_info THEN "Info Received"
               ELSE IF has_first_attempt THEN "Pending"
               ELSE "New")
    ELSE "New"

\* lines 292-297 with 'new' tested before 'partner'
ReferralTypeNewFirst(new_or_returning) ==
    IF new_or_returning = <<>> THEN "New"
    ELSE IF \E x \in { <<"p","r","e","v"," ","p","t">>, <<"p","r","e","v","i","o","u","s">>, <<"r","e","t","u","r","n","i","n","g">>, <<"r","e","t","u","r","n">> } :
                Contains(Lower(new_or_returning), x)
         THEN "Previous"
    ELSE IF Contains(Lower(new_or_returning), <<"n","e","w">>) THEN "New"
    ELSE IF Contains(Lower(new_or_returning), <<"p","a","r","t","n","e","r">>) THEN "Partner"
    ELSE "New"

\* lines 288-297
ReferralType(new_or_returning) ==
    IF new_or_returning = <<>> THEN "New"
    ELSE IF \E x \in { <<"p","r","e","v"," ","p","t">>,
                       <<"p","r","e","v","i","o","u","s">>,
                       <<"r","e","t","u","r","n","i","n","g">>,
                       <<"r","e","t","u","r","n">> } :
                Contains(Lower(new_or_returning), x)
         THEN "Previous"
    ELSE IF Contains(Lower(new_or_returning), <<"p","a","r","t","n","e","r">>)
         THEN "Partner"
    ELSE IF Contains(Lower(new_or_returning), <<"n","e","w">>) THEN "New"
    ELSE "New"

\* the modes the import writes by name
ModePhone    == <<"P","h","o","n","e">>
ModeEMail    == <<"E","-","M","a","i","l">>
ModeFax      == <<"F","a","x">>
ModeInPerson == <<"I","n","-","P","e","r","s","o","n">>
ModeMail     == <<"M","a","i","l">>
ModeTextSMS  == <<"T","e","x","t","/","S","M","S">>

\* lines 319-332 with 'phone'/'call' tested before 'email'/'e-mail'
get_contact_mode_phone_first(type_field, email_field) ==
    IF type_field = None \/ type_field = <<>> \/ Strip(type_field) = <<>>
    THEN (IF email_field # None /\ email_field # <<>>
             /\ Contains(Lower(email_field), <<"e","m","a","i","l">>)
          THEN ModeEMail
          ELSE ModePhone)
    ELSE LET mode_lower == Lower(Strip(type_field))
         IN  IF Contains(mode_lower, <<"p","h","o","n","e">>)
                \/ Contains(mode_lower, <<"c","a","l","l">>) THEN ModePhone
             ELSE IF Contains(mode_lower, <<"e","m","a","i","l">>)
                     \/ Contains(mode_lower, <<"e","-","m","a","i","l">>) THEN ModeEMail
             ELSE IF Contains(mode_lower, <<"f","a","x">>) THEN ModeFax
             ELSE IF Contains(mode_lower, <<"p","e","r","s","o","n">>)
                     \/ Contains(mode_lower, <<"v","i","s","i","t">>) THEN ModeInPerson
             ELSE IF Contains(mode_lower, <<"m","a","i","l">>)
                     \/ Contains(mode_lower, <<"p","o","s","t">>) THEN ModeMail
             ELSE IF Contains(mode_lower, <<"t","e","x","t">>)
                     \/ Contains(mode_lower, <<"s","m","s">>) THEN ModeTextSMS
             ELSE Strip(type_field)

\* lines 310-333
get_contact_mode(type_field, email_field) ==
    IF type_field = None \/ type_field = <<>> \/ Strip(type_field) = <<>>
    THEN (IF email_field # None /\ email_field # <<>>
             /\ Contains(Lower(email_field), <<"e","m","a","i","l">>)
          THEN ModeEMail
          ELSE ModePhone)
    ELSE LET mode_lower == Lower(Strip(type_field))
         IN  IF Contains(mode_lower, <<"e","m","a","i","l">>)
                \/ Contains(mode_lower, <<"e","-","m","a","i","l">>) THEN ModeEMail
             ELSE IF Contains(mode_lower, <<"p","h","o","n","e">>)
                     \/ Contains(mode_lower, <<"c","a","l","l">>) THEN ModePhone
             ELSE IF Contains(mode_lower, <<"f","a","x">>) THEN ModeFax
             ELSE IF Contains(mode_lower, <<"p","e","r","s","o","n">>)
                     \/ Contains(mode_lower, <<"v","i","s","i","t">>)
                     \/ Contains(mode_lower, <<"i","n"," ","p","e","r","s","o","n">>)
                  THEN ModeInPerson
             ELSE IF Contains(mode_lower, <<"m","a","i","l">>)
                     \/ Contains(mode_lower, <<"p","o","s","t">>) THEN ModeMail
             ELSE IF Contains(mode_lower, <<"t","e","x","t">>)
                     \/ Contains(mode_lower, <<"s","m","s">>) THEN ModeTextSMS
             ELSE Strip(type_field)

\* lines 339, 351, 363 with the comment left out of the test: a slot
\* without a date emits nothing
SlotAttemptsDateOnly(r, date_col, type_field, email_field, comment_col) ==
    LET attempt_date    == Strip(Get(r, date_col))
        attempt_comment == Strip(Get(r, comment_col))
    IN  IF attempt_date # <<>>
        THEN << [date    |-> parse_date_to_timestamp(attempt_date),
                 time    |-> <<>>,
                 mode    |-> get_contact_mode(type_field, email_field),
                 comment |-> attempt_comment] >>
        ELSE <<>>

\* one slot of lines 335-369: the attempt it appends, if any
SlotAttempts(r, date_col, type_field, email_field, comment_col) ==
    LET attempt_date    == Strip(Get(r, date_col))
        attempt_comment == Strip(Get(r, comment_col))
    IN  IF attempt_date # <<>> \/ attempt_comment # <<>>
        THEN << [date    |-> IF attempt_date # <<>>
                             THEN parse_date_to_timestamp(attempt_date)
                             ELSE NoInt,
                 time    |-> <<>>,
                 mode    |-> get_contact_mode(type_field, email_field),
                 comment |-> attempt_comment] >>
        ELSE <<>>

\* lines 307-369
Attempts(r) ==
    SlotAttempts(r, "1st Attempt to reach Patient/Referring MD",
                 Get(r, "Email"), Get(r, "Email"), "Comments")
    \o SlotAttempts(r, "2nd Attempt to reach Patient/Referring MD",
                    Get(r, "Type of Contact"), None, "Comments2")
    \o SlotAttempts(r, "3rd Attempt to reach Patient/Referring MD",
                    Get(r, "Type of Contact3"), None, "Comments4")

\* the mode lists of the attempt counts (lines 375-376, and
\* MSFReferrals.py lines 732-733 and 812-813)
PhoneModes == { <<"P","h","o","n","e">>, <<"P","h","o","n","e"," ","c","a","l","l">> }
EmailModes == { <<"E","-","M","a","i","l">>, <<"E","m","a","i","l">> }

\* sum(1 for a in attempts if a['mode'] in modes)
RECURSIVE CountModes(_, _)
CountModes(attempts, modes) ==
    IF attempts = <<>> THEN 0
    ELSE (IF Head(attempts).mode \in modes THEN 1 ELSE 0)
         + CountModes(Tail(attempts), modes)

\* attempts[-1] if attempts else None, one key of it
LastAttemptDate(attempts) ==
    IF attempts # <<>> THEN attempts[Len(attempts)].date ELSE NoInt
LastAttemptMode(attempts) ==
    IF attempts # <<>> THEN attempts[Len(attempts)].mode ELSE None
LastAttemptComment(attempts) ==
    IF attempts # <<>> THEN attempts[Len(attempts)].comment ELSE None

\* lines 270-297 and 371-452: the referral row inserted for an accepted
\* source row (neither skipped nor raising) with these attempts
ReferralRow(r, attempts) ==
    [ patientLastName    |-> Strip(Get(r, "LAST NAME")),
      referralType       |-> ReferralType(Strip(Get(r, "New or Returning"))),
      referralStatus     |->
          Status(Strip(Get(r, "Referral Complete")),
                 Strip(Get(r, "1st Attempt to reach Patient/Referring MD")) # <<>>,
                 Strip(Get(r, "Date Complete Information received")) # <<>>),
      lastAttemptDate    |-> LastAttemptDate(attempts),
      lastAttemptMode    |-> LastAttemptMode(attempts),
      lastAttemptComment |-> LastAttemptComment(attempts),
      phoneAttempts      |-> CountModes(attempts, PhoneModes),
      emailAttempts      |-> CountModes(attempts, EmailModes),
      completeInfoReceivedDate |->
          parse_date_to_timestamp(Get(r, "Date Complete Information received")),
      notesDate          |-> parse_date_to_timestamp(Get(r, "Date")) ]

-----------------------------------------------------------------------------
(* The environments and the date strings the conversions are run on *)

\* local UTC offsets in hours (Toronto's standard time, UTC, Tokyo)
UtcOffsets == {-5, 0, 9}

Platforms == {"posix", "windows"}

\* the days of the month the date strings use
DaySet == {1, 2, 28, 29, 30, 31}

\* a day of the month as text, zero padded or not
DayText(d, pad) ==
    IF d >= 10 \/ pad THEN TwoDigits(d) ELSE << Digits[d + 1] >>

\* every "D-Mon-YY" and "DD-Mon-YY" string over DaySet, all months and all
\* two-digit years (some, such as 30-Feb-24, are no dates)
DMYStrings ==
    { DayText(d, pad) \o <<"-">> \o MonthName[m] \o <<"-">> \o TwoDigits(yy) :
        d \in DaySet, m \in 1..12, yy \in 0..99, pad \in BOOLEAN }

\* ISO dates, among them the first and the last day datetime knows
ISOStrings ==
    { <<"0","0","0","1","-","0","1","-","0","1">>,
      <<"0","0","0","1","-","0","1","-","0","2">>,
      <<"0","0","0","1","-","1","2","-","3","1">>,
      <<"1","9","0","0","-","0","2","-","2","8">>,
      <<"1","9","0","0","-","0","3","-","0","1">>,
      <<"1","9","6","9","-","1","2","-","3","0">>,
      <<"1","9","6","9","-","1","2","-","3","1">>,
      <<"1","9","7","0","-","0","1","-","0","1">>,
      <<"1","9","7","0","-","0","1","-","0","2">>,
      <<"1","9","7","0","-","0","1","-","0","3">>,
      <<"2","0","2","4","-","0","2","-","2","9">>,
      <<"9","9","9","9","-","1","2","-","3","1">> }

\* strings that are no date of either format, or are one only once stripped
\* or lower-cased
OtherStrings ==
    { <<>>, <<" ", " ">>,
      <<"n","/","a">>,
      <<"1","3","-","O","c","t","-","1","9","8","3">>,
      <<"2","0","2","4","-","1","3","-","0","1">>,
      <<"O","c","t","-","1","3","-","8","3">>,
      <<"1","3","/","1","0","/","8","3">>,
      <<" ","1","7","-","S","e","p","-","2","4"," ">>,
      <<"1","7","-","s","e","p","-","2","4">>,
      <<"2","0","2","4","-","1","-","5">>,
      <<"0","0","0","0","-","0","1","-","0","1">> }

DateStrings == DMYStrings \cup ISOStrings \cup OtherStrings

\* the dates whose timestamps are compared with each other
OrderStrings ==
    ISOStrings \cup
    { <<"1","-","J","a","n","-","6","9">>,
      <<"3","1","-","D","e","c","-","6","9">>,
      <<"1","-","J","a","n","-","7","0">>,
      <<"2","-","J","a","n","-","7","0">>,
      <<"3","-","J","a","n","-","7","0">>,
      <<"3","1","-","D","e","c","-","4","9">>,
      <<"1","-","J","a","n","-","0","0">> }

-----------------------------------------------------------------------------
(* The source rows the classifier is run on *)

\* the longest 'New or Returning' text, in words
MaxWords == 2

Words == { <<"P","r","e","v"," ","P","t">>, <<"P","r","e","v","i","o","u","s">>, <<"R","e","t","u","r","n","i","n","g">>,
           <<"r","e","t","u","r","n">>, <<"P","a","r","t","n","e","r">>, <<"N","e","w">>,
           <<"v","i","s","i","t">>, <<"o","t","h","e","r">> }

\* ' '.join(ws)
RECURSIVE JoinWords(_)
JoinWords(ws) ==
    IF ws = <<>> THEN <<>>
    ELSE IF Len(ws) = 1 THEN ws[1]
    ELSE ws[1] \o <<" ">> \o JoinWords(Tail(ws))

\* every text of at most MaxWords words, and two that need stripping
NewOrReturningTexts ==
    { JoinWords(ws) : ws \in UNION { [1..k -> Words] : k \in 0..MaxWords } }
    \cup { <<" ", " ">>, <<" "," ","n","e","w"," ">> }

ReferralCompleteTexts ==
    { <<"C","o","m","p","l","e","t","e">>, <<"C","a","n","c","e","l","l","e","d">>,
      <<"D","e","f","e","r","r","e","d">>, <<"P","e","n","d","i","n","g">>,
      <<" ","P","e","n","d","i","n","g"," ">>, <<>>,
      <<"c","o","m","p","l","e","t","e">>, <<"C","o","m","p","l","e","t","e","d">>,
      <<"N","/","A">> }

\* a date column: empty, blank, a date, no date
DateTexts == { <<>>, <<" ">>, <<"1","7","-","S","e","p","-","2","4">>, <<"n","/","a">> }

\* a row with every column
MkRow(last, nor, first, email, comments, second, type2, comments2, third, type3, comments4, complete, info, notes, date) ==
    << <<"7">>, last, <<"A","n","n">>, nor, <<>>, first, email, comments, second, type2, comments2,
       third, type3, comments4, complete, info, notes, date >>

\* full rows that differ in the column the type reads, and full rows that
\* differ in the columns the status reads
ClassifierRows ==
    { MkRow(<<"S","m","i","t","h">>, nor, <<>>, <<>>, <<>>, <<>>, <<>>, <<>>,
            <<>>, <<>>, <<>>, <<"P","e","n","d","i","n","g">>, <<>>, <<>>, <<>>) :
        nor \in NewOrReturningTexts }
    \cup
    { MkRow(<<"S","m","i","t","h">>, nor, first, <<>>, <<>>, <<>>, <<>>, <<>>,
            <<>>, <<>>, <<>>, complete, info, <<>>, <<>>) :
        nor \in { <<>>, <<"P","r","e","v"," ","P","t">> }, first \in DateTexts,
        complete \in ReferralCompleteTexts, info \in DateTexts }

\* a slot's date column: empty, blank, a date (another one in each slot,
\* the 3rd slot's the earliest), no date
SlotDateTexts(d) == { <<>>, <<" ">>, d, <<"n","/","a">> }

\* a slot's comment column: empty, blank, a comment
SlotCommentTexts(c) == { <<>>, <<" ">>, c }

\* full rows that differ in the date and the comment of the three slots
SlotRows ==
    { MkRow(<<"S","m","i","t","h">>, <<>>, d1, <<>>, c1, d2, <<>>, c2, d3, <<>>, c3,
            <<"P","e","n","d","i","n","g">>, <<>>, <<>>, <<>>) :
        d1 \in SlotDateTexts(<<"1","7","-","S","e","p","-","2","4">>), c1 \in SlotCommentTexts(<<"f","i","r","s","t">>),
        d2 \in SlotDateTexts(<<"1","8","-","S","e","p","-","2","4">>), c2 \in SlotCommentTexts(<<"s","e","c","o","n","d">>),
        d3 \in SlotDateTexts(<<"1","6","-","S","e","p","-","2","4">>), c3 \in SlotCommentTexts(<<"t","h","i","r","d">>) }

\* the longest contact-type text, in words
MaxModeWords == 2

\* the keywords of get_contact_mode in both cases, and two other words
ModeWords == { <<"E","m","a","i","l">>, <<"E","-","M","A","I","L">>, <<"p","h","o","n","e">>, <<"C","a","l","l">>, <<"F","A","X">>, <<"P","e","r","s","o","n">>,
               <<"v","i","s","i","t">>, <<"m","a","i","l">>, <<"P","o","s","t">>, <<"T","e","x","t">>, <<"s","m","s">>, <<"L","e","t","t","e","r">>, <<"O","t","h","e","r">> }

\* every text of at most MaxModeWords words, a blank one and padded ones
ContactTypeTexts ==
    { JoinWords(ws) : ws \in UNION { [1..k -> ModeWords] : k \in 0..MaxModeWords } }
    \cup { <<" ">>, <<" ","L","e","t","t","e","r"," ">>, <<" ","f","a","x"," ">> }

\* full rows with three attempts that differ in the contact type of each
ModeRows ==
    { MkRow(<<"S","m","i","t","h">>, <<>>, <<"1","7","-","S","e","p","-","2","4">>, t, <<"f","i","r","s","t">>,
            <<"1","8","-","S","e","p","-","2","4">>, t, <<>>, <<>>, t, <<"t","h","i","r","d">>,
            <<"P","e","n","d","i","n","g">>, <<>>, <<>>, <<>>) : t \in ContactTypeTexts }
    \cup
    { MkRow(<<"S","m","i","t","h">>, <<>>, <<"1","7","-","S","e","p","-","2","4">>, t1, <<"f","i","r","s","t">>,
            <<"1","8","-","S","e","p","-","2","4">>, t2, <<>>, <<>>, t3, <<"t","h","i","r","d">>,
            <<"P","e","n","d","i","n","g">>, <<>>, <<>>, <<>>) :
        t1 \in { <<>>, <<"E","m","a","i","l"," ","s","e","n","t">> }, t2 \in { <<>>, <<"F","a","x">> },
        t3 \in { <<>>, <<"L","e","t","t","e","r">> } }

\* rows without a last name
BlankRows ==
    { MkRow(last, <<>>, first, <<>>, <<>>, <<>>, <<>>, <<>>,
            <<>>, <<>>, <<>>, <<"P","e","n","d","i","n","g">>, <<>>, <<>>, <<>>) :
        last \in { <<>>, <<" ", " ">> }, first \in DateTexts }

\* a row of a pending referral with one attempt, and the same row cut short
\* after each of its columns (csv.DictReader drops a row without fields)
PendingRow ==
    MkRow(<<"S","m","i","t","h">>, <<"N","e","w">>, <<"1","7","-","S","e","p","-","2","4">>,
          <<>>, <<"n","o"," ","a","n","s","w","e","r">>, <<>>, <<>>, <<>>,
          <<>>, <<>>, <<>>, <<"P","e","n","d","i","n","g">>, <<>>, <<>>, <<>>)

ShortRows == { SubSeq(PendingRow, 1, n) : n \in 1..(Len(Header) - 1) }

-----------------------------------------------------------------------------
(* Initial values of the parts a specification does not use *)

\* no lock file
NoFile == [exists |-> FALSE]

\* nothing returned yet
NoResult == [status |-> "none"]

\* MSFReferrals.py lines 38-40: the globals at start, no lock file
SessionIdle ==
    /\ current_user = None
    /\ lock_owner = None
    /\ lock_file = NoFile
    /\ now = 0
    /\ result = NoResult

ImportIdle ==
    /\ SessionIdle
    /\ rows = <<>>
    /\ pc = "off"
    /\ row_count = 0
    /\ inserted_count = 0
    /\ skipped_count = 0
    /\ referrals = <<>>
    /\ attempt_history = <<>>
    /\ seq_referrals = 0
    /\ is_read_only = FALSE

NoOutput == [kind |-> "none"]

\* changes as lines 50-55 leave it; the key extracted_emails belongs to the
\* column E-Mail, which the model does not keep
NoChanges ==
    [inferred_dates |-> 0, set_other_mode |-> 0, flagged_missing_dates |-> <<>>]

PreIdle ==
    /\ idx = 0
    /\ cleaned_rows = <<>>
    /\ changes = NoChanges
    /\ ppc = "off"

RoundIdle ==
    /\ exported_row = <<>>
    /\ reimported = NoOutput

ExportIdle == csv_file = NoFile

RaceIdle == instances = <<>>

KpiIdle ==
    /\ kpi_instances = <<>>
    /\ kpi_lock_file = NoFile
    /\ kpi_time = 0

RowIdle ==
    /\ row = <<>>
    /\ row_out = NoOutput
    /\ PreIdle
    /\ RoundIdle
    /\ ExportIdle
    /\ RaceIdle
    /\ KpiIdle

DateIdle ==
    /\ date_str = <<>>
    /\ date_str2 = <<>>
    /\ ts = NoInt
    /\ ts2 = NoInt
    /\ date_out = <<>>
    /\ dpc = "off"

-----------------------------------------------------------------------------
(* SpecDate: one date string imported and exported again *)

InitDate ==
    /\ ImportIdle
    /\ RowIdle
    /\ tz \in UtcOffsets
    /\ platform \in Platforms
    /\ date_str \in DateStrings
    /\ date_str2 = <<>>
    /\ ts = NoInt
    /\ ts2 = NoInt
    /\ date_out = <<>>
    /\ dpc = "in"

\* the import stores parse_date_to_timestamp(date_str)
DateImport ==
    /\ dpc = "in"
    /\ ts' = parse_date_to_timestamp(date_str)
    /\ dpc' = "stored"
    /\ UNCHANGED <<date_str, date_str2, ts2, date_out, tz, platform>>
    /\ UNCHANGED importVars
    /\ UNCHANGED rowVars

\* the export writes timestamp_to_date of the stored value
DateExport ==
    /\ dpc = "stored"
    /\ date_out' = timestamp_to_date(ts)
    /\ dpc' = "exported"
    /\ UNCHANGED <<date_str, date_str2, ts, ts2, tz, platform>>
    /\ UNCHANGED importVars
    /\ UNCHANGED rowVars

NextDate == DateImport \/ DateExport

SpecDate == InitDate /\ [][NextDate]_vars

-----------------------------------------------------------------------------
(* SpecOrder: two date strings imported in the same environment *)

InitOrder ==
    /\ ImportIdle
    /\ RowIdle
    /\ tz \in UtcOffsets
    /\ platform \in Platforms
    /\ date_str \in OrderStrings
    /\ date_str2 \in OrderStrings
    /\ ts = NoInt
    /\ ts2 = NoInt
    /\ date_out = <<>>
    /\ dpc = "in"

OrderImport ==
    /\ dpc = "in"
    /\ ts' = parse_date_to_timestamp(date_str)
    /\ ts2' = parse_date_to_timestamp(date_str2)
    /\ dpc' = "stored"
    /\ UNCHANGED <<date_str, date_str2, date_out, tz, platform>>
    /\ UNCHANGED importVars
    /\ UNCHANGED rowVars

NextOrder == OrderImport

SpecOrder == InitOrder /\ [][NextOrder]_vars

-----------------------------------------------------------------------------
(* SpecRow: one source row through the loop body of convert_csv_to_sqlite *)

InitRow ==
    /\ ImportIdle
    /\ DateIdle
    /\ tz = -5
    /\ platform = "windows"
    /\ row \in ClassifierRows \cup SlotRows \cup ModeRows \cup BlankRows \cup ShortRows
    /\ row_out = NoOutput
    /\ PreIdle
    /\ RoundIdle
    /\ ExportIdle
    /\ RaceIdle
    /\ KpiIdle

\* line 266-268
RowSkip ==
    /\ row_out = NoOutput
    /\ RowSkipped(row)
    /\ row_out' = [kind |-> "skipped"]
    /\ UNCHANGED <<row, tz, platform>>
    /\ UNCHANGED preVars
    /\ UNCHANGED roundVars
    /\ UNCHANGED <<exportVars, raceVars, kpiVars>>
    /\ UNCHANGED importVars
    /\ UNCHANGED dateVars

\* an AttributeError leaves the loop body
RowRaise ==
    /\ row_out = NoOutput
    /\ RowRaises(row)
    /\ row_out' = [kind |-> "raised"]
    /\ UNCHANGED <<row, tz, platform>>
    /\ UNCHANGED preVars
    /\ UNCHANGED roundVars
    /\ UNCHANGED <<exportVars, raceVars, kpiVars>>
    /\ UNCHANGED importVars
    /\ UNCHANGED dateVars

\* lines 270-467
RowInsert ==
    /\ row_out = NoOutput
    /\ ~RowSkipped(row)
    /\ ~RowRaises(row)
    /\ row_out' = [kind |-> "inserted",
                   referral |-> ReferralRow(row, Attempts(row)),
                   attempts |-> Attempts(row)]
    /\ UNCHANGED <<row, tz, platform>>
    /\ UNCHANGED preVars
    /\ UNCHANGED roundVars
    /\ UNCHANGED <<exportVars, raceVars, kpiVars>>
    /\ UNCHANGED importVars
    /\ UNCHANGED dateVars

NextRow == RowSkip \/ RowRaise \/ RowInsert

SpecRow == InitRow /\ [][NextRow]_vars

-----------------------------------------------------------------------------
(* Spec: a legacy CSV is imported, then the dashboard works on the database *)

\* the longest CSV, in rows
MaxRows == 2

\* the largest referralID the dashboard is used with
MaxReferralID == 2

\* the longest attemptHistory list the dashboard sends
MaxAttempts == 1

\* a referral with complete information and two attempts
InfoRow ==
    MkRow(<<"J","o","n","e","s">>, <<"P","r","e","v"," ","P","t">>, <<"1","7","-","S","e","p","-","2","4">>,
          <<"E","m","a","i","l"," ","s","e","n","t">>, <<"s","e","n","t"," ","f","o","r","m","s">>,
          <<"2","0","2","4","-","0","9","-","2","0">>, <<"F","a","x">>, <<>>,
          <<>>, <<>>, <<>>, <<"P","e","n","d","i","n","g">>, <<"2","1","-","S","e","p","-","2","4">>,
          <<>>, <<>>)

\* a completed referral without attempts
CompleteRow ==
    MkRow(<<"L","e","e">>, <<"N","e","w"," ","P","a","r","t","n","e","r">>, <<>>,
          <<>>, <<>>, <<>>, <<>>, <<>>,
          <<>>, <<>>, <<>>, <<"C","o","m","p","l","e","t","e">>, <<"1","3","-","O","c","t","-","8","3">>,
          <<"d","o","n","e">>, <<"1","4","-","O","c","t","-","8","3">>)

\* a row without a last name
BlankRow ==
    MkRow(<<" ">>, <<>>, <<>>, <<>>, <<>>, <<>>, <<>>, <<>>,
          <<>>, <<>>, <<>>, <<>>, <<>>, <<>>, <<>>)

\* the rows a CSV is made of: three full rows, a blank one, a row that lacks
\* only its last column, and a row that ends after 'Referral Complete'
SourceRows ==
    { PendingRow, InfoRow, CompleteRow, BlankRow,
      SubSeq(PendingRow, 1, Len(Header) - 1),
      SubSeq(PendingRow, 1, ColumnIndex("Referral Complete")) }

\* what the dashboard sends as referral_data (without attemptHistory): the
\* columns it sets
DashData ==
    { [referralStatus |-> "Pending", patientLastName |-> <<"D","o","e">>],
      [referralStatus |-> "Completed"] }

\* the attempts the dashboard sends: dicts with some of the keys date,
\* time, mode and comment
DashAttempts ==
    { [mode |-> <<"P","h","o","n","e">>, comment |-> <<"c","a","l","l","e","d">>],
      [mode |-> <<"E","m","a","i","l">>, date |-> <<"2","0","2","4","-","0","9","-","1","7">>] }

AttemptLists == UNION { [1..k -> DashAttempts] : k \in 0..MaxAttempts }

\* the columns of table referrals the model keeps
ReferralColumns ==
    { "referralID", "patientLastName", "referralType", "referralStatus",
      "lastAttemptDate", "lastAttemptMode", "lastAttemptComment",
      "phoneAttempts", "emailAttempts", "completeInfoReceivedDate",
      "notesDate" }

\* a column's value when an INSERT does not name it
ColumnDefault(col) ==
    IF col \in {"phoneAttempts", "emailAttempts"} THEN 0
    ELSE IF col \in {"lastAttemptDate", "completeInfoReceivedDate", "notesDate"}
         THEN NoInt
    ELSE IF col \in {"referralType", "referralStatus"} THEN "NULL"
    ELSE None

\* d.get(key, default)
DictGet(d, key, default) == IF key \in DOMAIN d THEN d[key] ELSE default

\* the attempt_history rows of one referral, in id order
RECURSIVE HistoryOf(_, _)
HistoryOf(history, id) ==
    IF history = <<>> THEN <<>>
    ELSE (IF Head(history).referralID = id THEN <<Head(history)>> ELSE <<>>)
         \o HistoryOf(Tail(history), id)

\* DELETE FROM attempt_history WHERE referralID = id
RECURSIVE DeleteHistory(_, _)
DeleteHistoryNothing(history, id) == history
DeleteHistory(history, id) ==
    IF history = <<>> THEN <<>>
    ELSE (IF Head(history).referralID = id THEN <<>> ELSE <<Head(history)>>)
         \o DeleteHistory(Tail(history), id)

\* DELETE FROM referrals WHERE referralID = id
RECURSIVE DeleteRows(_, _)
DeleteRows(table, id) ==
    IF table = <<>> THEN <<>>
    ELSE (IF Head(table).referralID = id THEN <<>> ELSE <<Head(table)>>)
         \o DeleteRows(Tail(table), id)

\* the rows the import inserts into attempt_history (lines 456-467)
ImportHistory(id, attempts) ==
    [ i \in 1..Len(attempts) |->
        [ referralID     |-> id,
          attemptDate    |-> attempts[i].date,
          attemptTime    |-> attempts[i].time,
          attemptMode    |-> attempts[i].mode,
          attemptComment |-> attempts[i].comment ] ]

\* MSFReferrals.py: int(datetime.strptime(s, '%Y-%m-%d').timestamp()), and
\* None when either raises (lines 766-771, 847-852)
DashDate(s) ==
    IF StrptimeISO(s).ok /\ Timestamp(StrptimeISO(s)).exc = "none"
    THEN Some(Timestamp(StrptimeISO(s)).val)
    ELSE NoInt

\* the rows add_referral and update_referral insert into attempt_history
\* (lines 763-782, 845-863)
DashHistory(id, hist) ==
    [ i \in 1..Len(hist) |->
        [ referralID     |-> id,
          attemptDate    |-> IF DictGet(hist[i], "date", <<>>) # <<>>
                             THEN DashDate(hist[i].date) ELSE NoInt,
          attemptTime    |-> DictGet(hist[i], "time", <<>>),
          attemptMode    |-> DictGet(hist[i], "mode", <<>>),
          attemptComment |-> DictGet(hist[i], "comment", <<>>) ] ]

\* sum(1 for a in attempt_history if a.get('mode') in modes)
RECURSIVE CountDictModes(_, _)
CountDictModes(hist, modes) ==
    IF hist = <<>> THEN 0
    ELSE (IF DictGet(Head(hist), "mode", None) \in modes THEN 1 ELSE 0)
         + CountDictModes(Tail(hist), modes)

\* referral_data after lines 731-740 (812-820): the counts, and the last
\* attempt's mode when there is an attempt
WithCounts(data, hist) ==
    [ c \in DOMAIN data \cup {"phoneAttempts", "emailAttempts"}
             \cup (IF hist # <<>> THEN {"lastAttemptMode"} ELSE {}) |->
        IF c = "phoneAttempts" THEN CountDictModes(hist, PhoneModes)
        ELSE IF c = "emailAttempts" THEN CountDictModes(hist, EmailModes)
        ELSE IF c = "lastAttemptMode" /\ hist # <<>>
             THEN DictGet(hist[Len(hist)], "mode", <<>>)
        ELSE data[c] ]

\* INSERT INTO referrals (columns of data) VALUES (...)
InsertedRow(id, data) ==
    [ c \in ReferralColumns |->
        IF c = "referralID" THEN id
        ELSE IF c \in DOMAIN data THEN data[c]
        ELSE ColumnDefault(c) ]

\* UPDATE referrals SET (columns of data) WHERE referralID = id
UpdateRows(table, id, data) ==
    [ i \in 1..Len(table) |->
        IF table[i].referralID = id
        THEN [ c \in ReferralColumns |->
                 IF c \in DOMAIN data THEN data[c] ELSE table[i][c] ]
        ELSE table[i] ]

InitSpec ==
    /\ RowIdle
    /\ DateIdle
    /\ tz = -5
    /\ platform = "windows"
    /\ rows \in UNION { [1..k -> SourceRows] : k \in 0..MaxRows }
    /\ pc = "import"
    /\ row_count = 0
    /\ inserted_count = 0
    /\ skipped_count = 0
    /\ referrals = <<>>
    /\ attempt_history = <<>>
    /\ seq_referrals = 0
    /\ is_read_only = FALSE
    /\ SessionIdle

\* Convert-CSV-To-SQLite.py lines 262-268: a row without a last name
ImportSkip ==
    /\ pc = "import"
    /\ row_count < Len(rows)
    /\ RowSkipped(rows[row_count + 1])
    /\ row_count' = row_count + 1
    /\ skipped_count' = skipped_count + 1
    /\ UNCHANGED <<rows, pc, inserted_count, referrals, attempt_history,
                   seq_referrals, is_read_only, tz, platform>>
    /\ UNCHANGED sessionVars
    /\ UNCHANGED rowVars
    /\ UNCHANGED dateVars

\* lines 262-469: an accepted row becomes a referral and its attempts
ImportInsert ==
    /\ pc = "import"
    /\ row_count < Len(rows)
    /\ ~RowSkipped(rows[row_count + 1])
    /\ ~RowRaises(rows[row_count + 1])
    /\ row_count' = row_count + 1
    /\ seq_referrals' = seq_referrals + 1
    /\ referrals' =
          Append(referrals,
                 InsertedRow(seq_referrals + 1,
                             ReferralRow(rows[row_count + 1],
                                         Attempts(rows[row_count + 1]))))
    /\ attempt_history' =
          attempt_history \o ImportHistory(seq_referrals + 1,
                                           Attempts(rows[row_count + 1]))
    /\ inserted_count' = inserted_count + 1
    /\ UNCHANGED <<rows, pc, skipped_count, is_read_only, tz, platform>>
    /\ UNCHANGED sessionVars
    /\ UNCHANGED rowVars
    /\ UNCHANGED dateVars

\* the loop body raises on a None field: the exception leaves
\* convert_csv_to_sqlite, conn.commit() (line 474) is never reached and the
\* open transaction, every insert so far, is lost
ImportRaise ==
    /\ pc = "import"
    /\ row_count < Len(rows)
    /\ RowRaises(rows[row_count + 1])
    /\ row_count' = row_count + 1
    /\ pc' = "crashed"
    /\ referrals' = <<>>
    /\ attempt_history' = <<>>
    /\ seq_referrals' = 0
    /\ UNCHANGED <<rows, inserted_count, skipped_count, is_read_only,
                   tz, platform>>
    /\ UNCHANGED sessionVars
    /\ UNCHANGED rowVars
    /\ UNCHANGED dateVars

\* lines 474-496: the end of the stream; the dashboard opens the database
ImportCommit ==
    /\ pc = "import"
    /\ row_count = Len(rows)
    /\ pc' = "dashboard"
    /\ UNCHANGED <<rows, row_count, inserted_count, skipped_count, referrals,
                   attempt_history, seq_referrals, is_read_only, tz, platform>>
    /\ UNCHANGED sessionVars
    /\ UNCHANGED rowVars
    /\ UNCHANGED dateVars

\* MSFReferrals.py lines 25-26 and 31-34
LOCK_STALE_HOURS == 4
ValidHash == "5f8eb2b05a1678d45a1678d55a1678d65a1678d75a1678d85a1678d95a1678da"
VALID_USERS == [u \in { <<"a","d","m","i","n">>, <<"j","e","n","n","i","a">> } |-> ValidHash]

\* check_lock_file (lines 165-186); hours_old is counted in whole hours
check_lock_file_never_stale ==
    IF ~lock_file.exists THEN [locked |-> FALSE]
    ELSE [locked |-> TRUE, user |-> lock_file.user,
          timestamp |-> lock_file.timestamp, stale |-> FALSE]
check_lock_file ==
    IF ~lock_file.exists THEN [locked |-> FALSE]
    ELSE [locked |-> TRUE, user |-> lock_file.user,
          timestamp |-> lock_file.timestamp,
          stale |-> (now - lock_file.timestamp) > LOCK_STALE_HOURS]

\* create_lock_file (lines 188-199): the file it writes
create_lock_file(username) ==
    [exists |-> TRUE, user |-> username, timestamp |-> now]

\* refresh_lock_file (lines 209-212): the lock file after it
refresh_lock_file ==
    IF ~is_read_only /\ current_user # None /\ current_user # <<>>
    THEN create_lock_file(current_user)
    ELSE lock_file

\* MSFReferrals.py login (lines 104-141); entered_hash is
\* hash_password(password)
Login(username, entered_hash) ==
    /\ pc = "dashboard"
    /\ IF \/ Lower(username) \notin DOMAIN VALID_USERS
          \/ entered_hash # VALID_USERS[Lower(username)]
       THEN /\ result' = [status |-> "error",
                          message |-> "Invalid username or password"]
            /\ UNCHANGED <<current_user, is_read_only, lock_owner, lock_file>>
       ELSE IF check_lock_file.locked /\ ~check_lock_file.stale
       THEN /\ current_user' = Lower(username)
            /\ is_read_only' = TRUE
            /\ lock_owner' = check_lock_file.user
            /\ result' = [status |-> "locked", user |-> check_lock_file.user,
                          timestamp |-> check_lock_file.timestamp]
            /\ UNCHANGED lock_file
       ELSE /\ lock_file' = create_lock_file(Lower(username))
            /\ current_user' = Lower(username)
            /\ is_read_only' = FALSE
            /\ result' = [status |-> "success", username |-> Lower(username),
                          readOnly |-> FALSE]
            /\ UNCHANGED lock_owner
    /\ UNCHANGED <<rows, pc, row_count, inserted_count, skipped_count,
                   referrals, attempt_history, seq_referrals, now, tz, platform>>
    /\ UNCHANGED rowVars
    /\ UNCHANGED dateVars

\* MSFReferrals.py login_readonly (lines 143-149)
LoginReadonly(username) ==
    /\ pc = "dashboard"
    /\ current_user' = username
    /\ is_read_only' = TRUE
    /\ result' = [status |-> "success", username |-> username, readOnly |-> TRUE]
    /\ UNCHANGED <<rows, pc, row_count, inserted_count, skipped_count,
                   referrals, attempt_history, seq_referrals, lock_owner,
                   lock_file, now, tz, platform>>
    /\ UNCHANGED rowVars
    /\ UNCHANGED dateVars

\* MSFReferrals.py logout (lines 151-163)
Logout ==
    /\ pc = "dashboard"
    /\ lock_file' = IF ~is_read_only THEN NoFile ELSE lock_file
    /\ current_user' = None
    /\ is_read_only' = FALSE
    /\ lock_owner' = None
    /\ result' = [status |-> "success"]
    /\ UNCHANGED <<rows, pc, row_count, inserted_count, skipped_count,
                   referrals, attempt_history, seq_referrals, now, tz, platform>>
    /\ UNCHANGED rowVars
    /\ UNCHANGED dateVars

\* MSFReferrals.py add_referral (lines 715-796)
AddReferral(data, hist) ==
    /\ pc = "dashboard"
    /\ IF is_read_only
       THEN /\ result' = [status |-> "error",
                          message |-> "Cannot add referrals in read-only mode"]
            /\ UNCHANGED <<referrals, attempt_history, seq_referrals, lock_file>>
       ELSE /\ seq_referrals < MaxReferralID
            /\ seq_referrals' = seq_referrals + 1
            /\ referrals' = Append(referrals,
                                   InsertedRow(seq_referrals + 1, WithCounts(data, hist)))
            /\ attempt_history' = attempt_history \o DashHistory(seq_referrals + 1, hist)
            /\ lock_file' = refresh_lock_file
            /\ result' = [status |-> "success"]
    /\ UNCHANGED <<rows, pc, row_count, inserted_count, skipped_count,
                   is_read_only, current_user, lock_owner, now, tz, platform>>
    /\ UNCHANGED rowVars
    /\ UNCHANGED dateVars

\* MSFReferrals.py update_referral (lines 798-876)
UpdateReferral(id, data, hist) ==
    /\ pc = "dashboard"
    /\ IF is_read_only
       THEN /\ result' = [status |-> "error",
                          message |-> "Cannot update referrals in read-only mode"]
            /\ UNCHANGED <<referrals, attempt_history, lock_file>>
       ELSE /\ referrals' = UpdateRows(referrals, id, WithCounts(data, hist))
            /\ attempt_history' = DeleteHistory(attempt_history, id) \o DashHistory(id, hist)
            /\ lock_file' = refresh_lock_file
            /\ result' = [status |-> "success"]
    /\ UNCHANGED <<rows, pc, row_count, inserted_count, skipped_count,
                   seq_referrals, is_read_only, current_user, lock_owner, now,
                   tz, platform>>
    /\ UNCHANGED rowVars
    /\ UNCHANGED dateVars

\* whether a connection deletes the children of a deleted row: SQLite
\* enforces foreign keys only on a connection that ran PRAGMA
\* foreign_keys=ON, and get_db_connection (lines 83-89) sets journal_mode
\* and synchronous only
ForeignKeysOn == FALSE

\* delete_referral without lines 881-882
DeleteReferralUnguarded(id) ==
    /\ pc = "dashboard"
    /\ referrals' = DeleteRows(referrals, id)
    /\ attempt_history' = attempt_history
    /\ lock_file' = IF current_user # None THEN create_lock_file(current_user) ELSE lock_file
    /\ result' = [status |-> "success"]
    /\ UNCHANGED <<rows, pc, row_count, inserted_count, skipped_count,
                   seq_referrals, is_read_only, current_user, lock_owner, now,
                   tz, platform>>
    /\ UNCHANGED rowVars
    /\ UNCHANGED dateVars

\* MSFReferrals.py delete_referral (lines 878-900)
DeleteReferral(id) ==
    /\ pc = "dashboard"
    /\ IF is_read_only
       THEN /\ result' = [status |-> "error",
                          message |-> "Cannot delete referrals in read-only mode"]
            /\ UNCHANGED <<referrals, attempt_history, lock_file>>
       ELSE /\ referrals' = DeleteRows(referrals, id)
            /\ attempt_history' =
                  IF ForeignKeysOn /\ \E i \in 1..Len(referrals) : referrals[i].referralID = id
                  THEN DeleteHistory(attempt_history, id)
                  ELSE attempt_history
            /\ lock_file' = refresh_lock_file
            /\ result' = [status |-> "success"]
    /\ UNCHANGED <<rows, pc, row_count, inserted_count, skipped_count,
                   seq_referrals, is_read_only, current_user, lock_owner, now,
                   tz, platform>>
    /\ UNCHANGED rowVars
    /\ UNCHANGED dateVars

\* the name the read-only login of Spec is given
Guest == <<"g","u","e","s","t">>

Next ==
    \/ ImportSkip
    \/ ImportInsert
    \/ ImportRaise
    \/ ImportCommit
    \/ LoginReadonly(Guest)
    \/ \E data \in DashData, hist \in AttemptLists : AddReferral(data, hist)
    \/ \E id \in 1..MaxReferralID, data \in DashData, hist \in AttemptLists :
          UpdateReferral(id, data, hist)
    \/ \E id \in 1..MaxReferralID : DeleteReferral(id)

Spec == InitSpec /\ [][Next]_vars

-----------------------------------------------------------------------------
(* SpecLock: the dashboard's sessions, the lock file and the clock *)

\* the names typed at the login dialog
Usernames == { <<"a","d","m","i","n">>, <<"J","e","n","n","i","a">>, <<"g","u","e","s","t">> }

\* hash_password(password) of a right and of a wrong password
EnteredHashes ==
    { ValidHash,
      "0000000000000000000000000000000000000000000000000000000000000000" }

\* the latest hour of the clock
MaxClock == 6

\* what the dashboard of SpecLock sends: one referral with one attempt
LockData == [referralStatus |-> "Pending", patientLastName |-> <<"D","o","e">>]
LockHist == << [mode |-> <<"P","h","o","n","e">>, comment |-> <<"c","a","l","l","e","d">>] >>

\* the lock file another session left behind, if any
InitialLocks == { NoFile, [exists |-> TRUE, user |-> <<"j","e","n","n","i","a">>, timestamp |-> 0] }

\* the dashboard opened on an empty database
InitLock ==
    /\ RowIdle
    /\ DateIdle
    /\ tz = -5
    /\ platform = "windows"
    /\ rows = <<>>
    /\ pc = "dashboard"
    /\ row_count = 0
    /\ inserted_count = 0
    /\ skipped_count = 0
    /\ referrals = <<>>
    /\ attempt_history = <<>>
    /\ seq_referrals = 0
    /\ is_read_only = FALSE
    /\ current_user = None
    /\ lock_owner = None
    /\ lock_file \in InitialLocks
    /\ now = 0
    /\ result = NoResult

\* time passes: datetime.now() (lines 175 and 194) grows
Tick(hours) ==
    /\ now + hours <= MaxClock
    /\ now' = now + hours
    /\ UNCHANGED <<rows, pc, row_count, inserted_count, skipped_count,
                   referrals, attempt_history, seq_referrals, is_read_only,
                   current_user, lock_owner, lock_file, result, tz, platform>>
    /\ UNCHANGED rowVars
    /\ UNCHANGED dateVars

NextLock ==
    \/ \E username \in Usernames, entered_hash \in EnteredHashes :
          Login(username, entered_hash)
    \/ LoginReadonly(Guest)
    \/ Logout
    \/ Tick(2)
    \/ AddReferral(LockData, LockHist)
    \/ UpdateReferral(1, LockData, LockHist)
    \/ DeleteReferral(1)

SpecLock == InitLock /\ [][NextLock]_vars

-----------------------------------------------------------------------------
(* SpecEdit: add, update and delete in a session that holds the lock *)

\* the attempt lists the dashboard sends, the two orders of two attempts
\* among them
EditLists ==
    { <<>>,
      << [mode |-> <<"P","h","o","n","e">>, comment |-> <<"c","a","l","l","e","d">>] >>,
      << [mode |-> <<"P","h","o","n","e">>, comment |-> <<"c","a","l","l","e","d">>],
         [mode |-> <<"E","m","a","i","l">>, date |-> <<"2","0","2","4","-","0","9","-","1","7">>] >>,
      << [mode |-> <<"E","m","a","i","l">>, date |-> <<"2","0","2","4","-","0","9","-","1","7">>],
         [mode |-> <<"P","h","o","n","e">>, comment |-> <<"c","a","l","l","e","d">>] >> }

\* referral_data.pop('attemptHistory', []) (lines 725 and 806) of a request
\* with the key (<<hist>>) or without it (<<>>)
PopAttemptHistory(sent) == IF sent = <<>> THEN <<>> ELSE sent[1]

\* the requests: without the key attemptHistory, or with one of the lists
EditRequests == { <<>> } \cup { <<hist>> : hist \in EditLists }

\* the dashboard on an empty database, admin logged in with write access
InitEdit ==
    /\ RowIdle
    /\ DateIdle
    /\ tz = -5
    /\ platform = "windows"
    /\ rows = <<>>
    /\ pc = "dashboard"
    /\ row_count = 0
    /\ inserted_count = 0
    /\ skipped_count = 0
    /\ referrals = <<>>
    /\ attempt_history = <<>>
    /\ seq_referrals = 0
    /\ is_read_only = FALSE
    /\ current_user = <<"a","d","m","i","n">>
    /\ lock_owner = None
    /\ lock_file = [exists |-> TRUE, user |-> <<"a","d","m","i","n">>, timestamp |-> 0]
    /\ now = 0
    /\ result = [status |-> "success", username |-> <<"a","d","m","i","n">>, readOnly |-> FALSE]

NextEdit ==
    \/ \E sent \in EditRequests : AddReferral(LockData, PopAttemptHistory(sent))
    \/ \E id \in {1, 2}, sent \in EditRequests :
          UpdateReferral(id, LockData, PopAttemptHistory(sent))
    \/ \E id \in {1, 2} : DeleteReferral(id)

SpecEdit == InitEdit /\ [][NextEdit]_vars


-----------------------------------------------------------------------------
(* Preprocess-CSV.py: one source row through preprocess_csv *)

\* the dict csv.DictReader makes of a row: every header column is a key,
\* None for the columns a short row lacks
DictRow(r) == [i \in 1..Len(Header) |-> IF i <= Len(r) THEN r[i] ELSE None]

\* row[col] = v
Put(r, col, v) == [r EXCEPT ![ColumnIndex(col)] = v]

\* f"{v}" of a string or None
FormatValue(v) == IF v = None THEN <<"N","o","n","e">> ELSE v

\* s[:n]
Take(s, n) == SubSeq(s, 1, IF Len(s) < n THEN Len(s) ELSE n)

\* the length the flagged comment is cut to (line 165)
CommentPreview == 50

\* lines 66-75: one contact-method field standardized
StandardMethod(v) ==
    IF v = None \/ v = <<>> THEN v
    ELSE IF Lower(Strip(v)) \in { <<"e","m","a","i","l">>, <<"e","-","m","a","i","l">> } THEN <<"E","m","a","i","l">>
    ELSE IF Lower(Strip(v)) \in { <<"p","h","o","n","e"," ","c","a","l","l">>, <<"p","h","o","n","e">>, <<"c","a","l","l">> } THEN <<"P","h","o","n","e"," ","c","a","l","l">>
    ELSE IF Lower(Strip(v)) = <<"f","a","x">> THEN <<"F","a","x">>
    ELSE IF Lower(Strip(v)) = <<"o","t","h","e","r">> THEN <<"O","t","h","e","r">>
    ELSE v

\* lines 64-75
StandardizedRow(r) ==
    Put(Put(Put(r, "Email", StandardMethod(Get(r, "Email"))),
            "Type of Contact", StandardMethod(Get(r, "Type of Contact"))),
        "Type of Contact3", StandardMethod(Get(r, "Type of Contact3")))

\* Preprocess-CSV.py parse_date (lines 22-35): both tries use the same
\* format; NoDate stands for None
parse_date(s) ==
    IF s = None \/ s = <<>> \/ Strip(s) = <<>> THEN NoDate
    ELSE StrptimeDMY(Strip(s))

\* lines 89-105
PreAttempts ==
    << [date_field    |-> "1st Attempt to reach Patient/Referring MD",
        mode_field    |-> "Email",
        comment_field |-> "Comments"],
       [date_field    |-> "2nd Attempt to reach Patient/Referring MD",
        mode_field    |-> "Type of Contact",
        comment_field |-> "Comments2"],
       [date_field    |-> "3rd Attempt to reach Patient/Referring MD",
        mode_field    |-> "Type of Contact3",
        comment_field |-> "Comments4"] >>

\* lines 126-151: the date inferred for slot k of row r and the field it
\* comes from; the earlier slots are tried from the 1st on
InferredDate(r, k) ==
    LET complete_date == Strip(Get(r, "Date Complete Information received"))
        valid_prev    == { j \in 1..(k - 1) :
                             /\ Strip(Get(r, PreAttempts[j].date_field)) # <<>>
                             /\ parse_date(Strip(Get(r, PreAttempts[j].date_field))).ok }
        prev_attempt  == PreAttempts[CHOOSE j \in valid_prev : \A i \in valid_prev : j <= i]
        received_date == Strip(Get(r, "Date Referral Received"))
    IN  IF complete_date # <<>> /\ parse_date(complete_date).ok
        THEN [ok |-> TRUE, inferred_date |-> complete_date,
              date_source |-> "Date Complete Information received"]
        ELSE IF valid_prev # {}
        THEN [ok |-> TRUE, inferred_date |-> Strip(Get(r, prev_attempt.date_field)),
              date_source |-> prev_attempt.date_field]
        ELSE IF received_date # <<>> /\ parse_date(received_date).ok
        THEN [ok |-> TRUE, inferred_date |-> received_date,
              date_source |-> "Date Referral Received"]
        ELSE [ok |-> FALSE, inferred_date |-> <<>>, date_source |-> ""]

\* lines 158-166
FlagInfo(r, i, k, inferred) ==
    [ row           |-> i,
      patient       |-> Strip(FormatValue(Get(r, "FIRST NAME")) \o <<" ">>
                              \o FormatValue(Get(r, "LAST NAME"))),
      attempt       |-> PreAttempts[k].date_field,
      inferred_date |-> inferred.inferred_date,
      date_source   |-> inferred.date_source,
      comment       |-> Take(Get(r, PreAttempts[k].comment_field), CommentPreview) ]

\* lines 119-122 of one slot: the mode set to 'Other' when it is missing
SlotModeRow(r, k) ==
    IF Strip(Get(r, PreAttempts[k].comment_field)) # <<>>
       /\ Strip(Get(r, PreAttempts[k].mode_field)) = <<>>
    THEN Put(r, PreAttempts[k].mode_field, <<"O","t","h","e","r">>)
    ELSE r

\* whether lines 124-167 look for a date for slot k
SlotWantsDate(r, k) ==
    /\ Strip(Get(r, PreAttempts[k].comment_field)) # <<>>
    /\ Strip(Get(r, PreAttempts[k].date_field)) = <<>>

\* lines 107-168 for slot k, on the row and the changes so far; exc says
\* that .strip() was called on None
SlotStep(st, k, i) ==
    IF st.exc THEN st
    ELSE IF \/ Get(st.row, PreAttempts[k].comment_field) = None
            \/ Get(st.row, PreAttempts[k].date_field) = None
            \/ Get(st.row, PreAttempts[k].mode_field) = None
    THEN [st EXCEPT !.exc = TRUE]
    ELSE IF SlotWantsDate(st.row, k)
            /\ Get(st.row, "Date Complete Information received") = None
    THEN [st EXCEPT !.exc = TRUE]
    ELSE [ row |->
             IF SlotWantsDate(st.row, k) /\ InferredDate(st.row, k).ok
             THEN Put(SlotModeRow(st.row, k), PreAttempts[k].date_field,
                      InferredDate(st.row, k).inferred_date)
             ELSE SlotModeRow(st.row, k),
           changes |->
             [ inferred_dates |->
                 st.changes.inferred_dates
                 + (IF SlotWantsDate(st.row, k) /\ InferredDate(st.row, k).ok
                    THEN 1 ELSE 0),
               set_other_mode |->
                 st.changes.set_other_mode
                 + (IF SlotModeRow(st.row, k) # st.row THEN 1 ELSE 0),
               flagged_missing_dates |->
                 IF SlotWantsDate(st.row, k) /\ InferredDate(st.row, k).ok
                 THEN Append(st.changes.flagged_missing_dates,
                             FlagInfo(st.row, i, k, InferredDate(st.row, k)))
                 ELSE st.changes.flagged_missing_dates ],
           exc |-> FALSE ]

\* the same, with the state so far evaluated once
PreSlot(st, k, i) == CHOOSE out \in { SlotStep(v, k, i) : v \in {st} } : TRUE

\* lines 64-168: the loop body on an accepted row r of line number i
PreProcess(r, i, ch) ==
    PreSlot(PreSlot(PreSlot([row |-> StandardizedRow(DictRow(r)),
                             changes |-> ch, exc |-> FALSE], 1, i), 2, i), 3, i)

\* the loop body raises AttributeError: at line 61 when 'LAST NAME' is
\* None, else at lines 112-114 or 130.  (Line 78 strips 'E-Mail', which is
\* None only in a row that also lacks 'Comments'.)
PreRaises(r) ==
    \/ Get(r, "LAST NAME") = None
    \/ /\ ~RowSkipped(r)
       /\ PreProcess(r, 0, NoChanges).exc

\* the row csv.DictWriter writes and csv.DictReader reads back: None is
\* written as the empty string (lines 176-179)
WrittenRow(r) == [i \in 1..Len(r) |-> IF r[i] = None THEN <<>> ELSE r[i]]

\* the date and the comment of one attempt slot: nothing, both, a comment
\* alone, a comment with an invalid date, a date alone
SlotShapes(d, c) ==
    { << <<>>, <<>> >>, <<d, c>>, << <<>>, c >>, << <<"n","/","a">>, c >>, << d, <<>> >> }

\* the rows preprocess_csv is run on: every combination of the slot shapes
\* (the 3rd slot without the last two), of an empty, a valid and an ISO
\* complete-information date, of an empty and a valid date received, and
\* of an empty and a given contact method
PreGridRows ==
    { Put(MkRow(<<"S","m","i","t","h">>, <<>>, s1[1], m, s1[2], s2[1], m, s2[2], s3[1], m, s3[2],
                <<"P","e","n","d","i","n","g">>, info, <<>>, <<>>),
          "Date Referral Received", recv) :
        s1 \in SlotShapes(<<"1","7","-","S","e","p","-","2","4">>, <<"f","i","r","s","t">>),
        s2 \in SlotShapes(<<"1","8","-","S","e","p","-","2","4">>, <<"s","e","c","o","n","d">>),
        s3 \in { << <<>>, <<>> >>, << <<>>, <<"t","h","i","r","d">> >>, << <<"1","9","-","S","e","p","-","2","4">>, <<"t","h","i","r","d">> >> },
        info \in { <<>>, <<"2","1","-","S","e","p","-","2","4">>, <<"2","0","2","4","-","0","9","-","2","1">> },
        recv \in { <<>>, <<"1","0","-","S","e","p","-","2","4">> },
        m \in { <<>>, <<" ","P","h","o","n","e"," ">> } }

\* rows that differ in the contact method of a dated 1st attempt
PreMethodRows ==
    { MkRow(<<"S","m","i","t","h">>, <<>>, <<"1","7","-","S","e","p","-","2","4">>, m, <<"f","i","r","s","t">>, <<>>, <<>>, <<>>,
            <<>>, <<>>, <<>>, <<"P","e","n","d","i","n","g">>, <<>>, <<>>, <<>>) :
        m \in { <<"e","-","m","a","i","l">>, <<"E","M","A","I","L">>, <<"C","A","L","L">>, <<"p","h","o","n","e"," ","c","a","l","l">>, <<"f","a","x">>,
                <<" ","o","t","h","e","r"," ">>, <<"L","e","t","t","e","r">>, <<" ">>, <<"E","m","a","i","l"," ","s","e","n","t">> } }

\* a row whose 1st attempt has a comment only, cut short after each column
PreShortRows ==
    { SubSeq(MkRow(<<"S","m","i","t","h">>, <<>>, <<>>, <<>>, <<"f","i","r","s","t">>, <<>>, <<>>, <<>>,
                   <<>>, <<>>, <<>>, <<"P","e","n","d","i","n","g">>, <<"2","1","-","S","e","p","-","2","4">>, <<>>, <<>>),
             1, n) : n \in 1..(Len(Header) - 1) }

PreRows == PreGridRows \cup PreMethodRows \cup PreShortRows \cup BlankRows

\* the line numbers of the rows (enumerate(rows, start=2))
RowNumbers == { 2, 3 }

-----------------------------------------------------------------------------
(* SpecPre: one source row through preprocess_csv, the cleaned row through
   convert_csv_to_sqlite *)

InitPre ==
    /\ ImportIdle
    /\ DateIdle
    /\ tz = -5
    /\ platform = "windows"
    /\ row \in PreRows
    /\ row_out = NoOutput
    /\ idx \in RowNumbers
    /\ cleaned_rows = <<>>
    /\ changes = NoChanges
    /\ ppc = "read"
    /\ RoundIdle
    /\ ExportIdle
    /\ RaceIdle
    /\ KpiIdle

\* lines 59-62: a row without a last name is left out
PreSkip ==
    /\ ppc = "read"
    /\ RowSkipped(row)
    /\ ppc' = "skipped"
    /\ UNCHANGED <<row, row_out, idx, cleaned_rows, changes, tz, platform>>
    /\ UNCHANGED roundVars
    /\ UNCHANGED <<exportVars, raceVars, kpiVars>>
    /\ UNCHANGED importVars
    /\ UNCHANGED dateVars

\* an AttributeError leaves preprocess_csv
PreRaise ==
    /\ ppc = "read"
    /\ PreRaises(row)
    /\ ppc' = "raised"
    /\ UNCHANGED <<row, row_out, idx, cleaned_rows, changes, tz, platform>>
    /\ UNCHANGED roundVars
    /\ UNCHANGED <<exportVars, raceVars, kpiVars>>
    /\ UNCHANGED importVars
    /\ UNCHANGED dateVars

\* lines 64-170: the row is cleaned and appended
PreClean ==
    /\ ppc = "read"
    /\ ~RowSkipped(row)
    /\ ~PreRaises(row)
    /\ \E out \in { PreProcess(row, idx, changes) } :
          /\ cleaned_rows' = Append(cleaned_rows, out.row)
          /\ changes' = out.changes
    /\ ppc' = "cleaned"
    /\ UNCHANGED <<row, row_out, idx, tz, platform>>
    /\ UNCHANGED roundVars
    /\ UNCHANGED <<exportVars, raceVars, kpiVars>>
    /\ UNCHANGED importVars
    /\ UNCHANGED dateVars

\* Convert-CSV-To-SQLite.py lines 262-467 on the row of the cleaned file
CleanedImport ==
    /\ ppc = "cleaned"
    /\ \E written \in { WrittenRow(cleaned_rows[1]) } :
          IF RowSkipped(written) THEN row_out' = [kind |-> "skipped"]
          ELSE IF RowRaises(written) THEN row_out' = [kind |-> "raised"]
          ELSE \E attempts \in { Attempts(written) } :
                  row_out' = [kind |-> "inserted",
                              referral |-> ReferralRow(written, attempts),
                              attempts |-> attempts]
    /\ ppc' = "imported"
    /\ UNCHANGED <<row, idx, cleaned_rows, changes, tz, platform>>
    /\ UNCHANGED roundVars
    /\ UNCHANGED <<exportVars, raceVars, kpiVars>>
    /\ UNCHANGED importVars
    /\ UNCHANGED dateVars

NextPre == PreSkip \/ PreRaise \/ PreClean \/ CleanedImport

SpecPre == InitPre /\ [][NextPre]_vars

-----------------------------------------------------------------------------
(* Convert-SQLite-To-CSV.py: one referral exported *)

\* lines 133-140
OldStatus(referralStatus) ==
    IF referralStatus = "Completed" THEN <<"C","o","m","p","l","e","t","e">>
    ELSE IF referralStatus = "Deferred" THEN <<"D","e","f","e","r","r","e","d">>
    ELSE IF referralStatus \in { "New", "Pending", "Info Received" } THEN <<"P","e","n","d","i","n","g">>
    ELSE <<>>

\* lines 142-149
NewOrReturning(referralType) ==
    IF referralType = "New" THEN <<"N","e","w">>
    ELSE IF referralType = "Previous" THEN <<"P","r","e","v"," ","P","t">>
    ELSE IF referralType = "Partner" THEN <<"P","a","r","t","n","e","r">>
    ELSE <<>>

\* value or default, of a str or None
OrElse(value, default) == IF value = None \/ value = <<>> THEN default ELSE value

\* lines 107-131: the date, the mode and the comment of slot k
ExportSlot(attempts, k) ==
    IF Len(attempts) >= k
    THEN [date    |-> timestamp_to_date(attempts[k].attemptDate),
          mode    |-> OrElse(attempts[k].attemptMode, <<"P","h","o","n","e">>),
          comment |-> OrElse(attempts[k].attemptComment, <<>>)]
    ELSE [date |-> <<>>, mode |-> <<>>, comment |-> <<>>]

\* lines 160-190, the columns of Header: the row written for the referral
\* ref with the attempt_history rows attempts.  PID, FIRST NAME, Date
\* Referral Received and Notes come from columns of referrals the model
\* does not keep and are written empty.
ExportRow(ref, attempts) ==
    [ i \in 1..Len(Header) |->
        CASE Header[i] = "LAST NAME" -> OrElse(ref.patientLastName, <<>>)
          [] Header[i] = "New or Returning" -> NewOrReturning(ref.referralType)
          [] Header[i] = "1st Attempt to reach Patient/Referring MD" -> ExportSlot(attempts, 1).date
          [] Header[i] = "Email" -> ExportSlot(attempts, 1).mode
          [] Header[i] = "Comments" -> ExportSlot(attempts, 1).comment
          [] Header[i] = "2nd Attempt to reach Patient/Referring MD" -> ExportSlot(attempts, 2).date
          [] Header[i] = "Type of Contact" -> ExportSlot(attempts, 2).mode
          [] Header[i] = "Comments2" -> ExportSlot(attempts, 2).comment
          [] Header[i] = "3rd Attempt to reach Patient/Referring MD" -> ExportSlot(attempts, 3).date
          [] Header[i] = "Type of Contact3" -> ExportSlot(attempts, 3).mode
          [] Header[i] = "Comments4" -> ExportSlot(attempts, 3).comment
          [] Header[i] = "Referral Complete" -> OldStatus(ref.referralStatus)
          [] Header[i] = "Date Complete Information received" -> timestamp_to_date(ref.completeInfoReceivedDate)
          [] Header[i] = "Date" -> timestamp_to_date(ref.notesDate)
          [] OTHER -> <<>> ]

-----------------------------------------------------------------------------
(* SpecRound: one legacy row imported, exported and imported again *)

\* the legacy values of 'Referral Complete'
LegacyStatuses == { <<"C","o","m","p","l","e","t","e">>, <<"P","e","n","d","i","n","g">>, <<"C","a","n","c","e","l","l","e","d">>, <<"D","e","f","e","r","r","e","d">>, <<>> }

\* rows with every legacy status, with and without a 1st-attempt date and a
\* complete-information date (a date or a text that is none)
RoundStatusRows ==
    { MkRow(<<"S","m","i","t","h">>, <<"P","r","e","v"," ","P","t">>, first, <<>>, <<>>, <<>>, <<>>, <<>>,
            <<>>, <<>>, <<>>, complete, info, <<>>, <<>>) :
        first \in { <<>>, <<"1","7","-","S","e","p","-","2","4">> }, complete \in LegacyStatuses,
        info \in { <<>>, <<"2","1","-","S","e","p","-","2","4">>, <<"n","/","a">> } }

\* rows with attempts: the three full rows of the import, a row whose only
\* attempt is in the 2nd slot, and rows with one attempt of each kind of
\* contact text
RoundAttemptRows ==
    { PendingRow, InfoRow, CompleteRow,
      MkRow(<<"S","m","i","t","h">>, <<"N","e","w">>, <<>>, <<>>, <<>>, <<"1","8","-","S","e","p","-","2","4">>, <<"F","a","x">>, <<"s","e","c","o","n","d">>,
            <<>>, <<>>, <<>>, <<"P","e","n","d","i","n","g">>, <<>>, <<>>, <<>>) }
    \cup
    { MkRow(<<"S","m","i","t","h">>, <<"P","a","r","t","n","e","r">>, <<"1","7","-","S","e","p","-","2","4">>, m, <<"f","i","r","s","t">>, <<>>, <<>>, <<>>,
            <<"1","9","-","S","e","p","-","2","4">>, m, <<"t","h","i","r","d">>, <<"C","o","m","p","l","e","t","e">>, <<>>, <<>>, <<>>) :
        m \in { <<>>, <<"e","-","m","a","i","l">>, <<"P","h","o","n","e"," ","c","a","l","l">>, <<"i","n"," ","p","e","r","s","o","n">>, <<"b","y"," ","p","o","s","t">>,
                <<"S","M","S">>, <<"L","e","t","t","e","r">>, <<"O","t","h","e","r">> } }

RoundRows ==
    RoundStatusRows \cup RoundAttemptRows \cup { BlankRow }
    \cup { SubSeq(PendingRow, 1, ColumnIndex("Referral Complete")) }

InitRound ==
    /\ ImportIdle
    /\ DateIdle
    /\ tz \in { -5, 0 }
    /\ platform = "windows"
    /\ row \in RoundRows
    /\ row_out = NoOutput
    /\ PreIdle
    /\ RoundIdle
    /\ ExportIdle
    /\ RaceIdle
    /\ KpiIdle

\* Convert-SQLite-To-CSV.py lines 84-192 on the one referral of the database
RowExport ==
    /\ row_out.kind = "inserted"
    /\ exported_row = <<>>
    /\ exported_row' = ExportRow(InsertedRow(1, row_out.referral),
                                 ImportHistory(1, row_out.attempts))
    /\ UNCHANGED <<row, row_out, reimported, tz, platform>>
    /\ UNCHANGED <<exportVars, raceVars, kpiVars>>
    /\ UNCHANGED preVars
    /\ UNCHANGED importVars
    /\ UNCHANGED dateVars

\* Convert-CSV-To-SQLite.py lines 262-467 on the exported row
RowReimport ==
    /\ exported_row # <<>>
    /\ reimported = NoOutput
    /\ IF RowSkipped(exported_row) THEN reimported' = [kind |-> "skipped"]
       ELSE IF RowRaises(exported_row) THEN reimported' = [kind |-> "raised"]
       ELSE \E attempts \in { Attempts(exported_row) } :
               reimported' = [kind |-> "inserted",
                              referral |-> ReferralRow(exported_row, attempts),
                              attempts |-> attempts]
    /\ UNCHANGED <<row, row_out, exported_row, tz, platform>>
    /\ UNCHANGED <<exportVars, raceVars, kpiVars>>
    /\ UNCHANGED preVars
    /\ UNCHANGED importVars
    /\ UNCHANGED dateVars

NextRound == RowSkip \/ RowRaise \/ RowInsert \/ RowExport \/ RowReimport

SpecRound == InitRound /\ [][NextRound]_vars

-----------------------------------------------------------------------------
(* SpecExport: MSFReferrals.py export_to_csv on an imported database *)

\* the columns of table referrals (Convert-CSV-To-SQLite.py lines 65-131)
TableColumns ==
    { "referralID", "addedToDBDate", "referralDate", "receivedDate", "fileName",
      "referringPhysicianName", "referringPhysicianBilling", "referringPhysicianFax",
      "referringPhysicianPhone", "referringPhysicianEmail",
      "urgent", "requestedLocation", "requestedPhysician", "serviceRequested",
      "subServiceRequested", "referralType",
      "patientPID", "patientMRN", "patientFirstName", "patientMiddleName", "patientLastName",
      "patientDOB", "patientPhone", "patientEmail", "patientAddress", "patientHC",
      "patientGenderAtBirth", "emergencyContact", "emergencyContactRelationship",
      "partnerPID", "partnerMRN", "partnerFirstName", "partnerMiddleName", "partnerLastName",
      "partnerDOB", "partnerPhone", "partnerEmail", "partnerAddress", "partnerHC",
      "partnerGenderAtBirth", "partnerEmergencyContact", "partnerEmergencyContactRelationship",
      "referralStatus", "lastAttemptDate", "lastAttemptTime", "lastAttemptMode",
      "lastAttemptComment", "phoneAttempts", "emailAttempts",
      "faxedBackDate", "completeInfoReceivedDate", "taskedToPhysicianAdmin",
      "referralCompleteDate", "notes", "notesDate" }

\* the SELECT list of export_to_csv (lines 1171-1190), in its order
SelectList ==
    << "referralID", "addedToDBDate", "referralDate", "receivedDate", "fileName",
       "referringPhysicianName", "referringPhysicianBilling", "referringPhysicianFax",
       "referringPhysicianPhone", "referringPhysicianEmail",
       "urgent", "requestedLocation", "requestedPhysician", "serviceRequested",
       "subServiceRequested", "referralType",
       "patientPID", "patientMRN", "patientFirstName", "patientMiddleName", "patientLastName",
       "patientDOB", "patientPhone", "patientEmail", "patientAddress", "patientHC",
       "patientGenderAtBirth", "emergencyContact", "emergencyContactRelationship",
       "partnerPID", "partnerMRN", "partnerFirstName", "partnerMiddleName", "partnerLastName",
       "partnerDOB", "partnerPhone", "partnerEmail", "partnerAddress", "partnerHC",
       "partnerGenderAtBirth", "partnerEmergencyContact", "partnerEmergencyContactRelationship",
       "referralStatus", "lastAttemptDate", "lastAttemptTime", "lastAttemptMode",
       "lastAttemptComment", "phoneAttempts", "emailAttempts", "assignedPhysician",
       "faxedBackDate", "completeInfoReceivedDate", "taskedToPhysicianAdmin",
       "referralCompleteDate", "notes", "notesDate" >>

\* date_columns (line 1196): 0-based positions in the SELECT list
date_columns == {1, 2, 3, 40, 45, 46, 47, 49}

\* a stored value with its SQLite type; a column the model does not keep is
\* NULL, a timestamp counts hours, referralType and referralStatus hold
\* the model's words
SqlValue(ref, col) ==
    IF col \notin ReferralColumns THEN [type |-> "null"]
    ELSE IF col \in {"referralID", "phoneAttempts", "emailAttempts"}
         THEN [type |-> "integer", val |-> ref[col]]
    ELSE IF col \in {"lastAttemptDate", "completeInfoReceivedDate", "notesDate"}
         THEN (IF ref[col] = NoInt THEN [type |-> "null"]
               ELSE [type |-> "integer", val |-> ref[col][1]])
    ELSE IF col \in {"referralType", "referralStatus"}
         THEN (IF ref[col] = "NULL" THEN [type |-> "null"]
               ELSE [type |-> "text", val |-> ref[col]])
    ELSE IF ref[col] = None THEN [type |-> "null"]
    ELSE [type |-> "text", val |-> ref[col]]

\* four decimal digits, zero padded
FourDigits(n) == TwoDigits(n \div 100) \o TwoDigits(n % 100)

\* dt.strftime('%Y-%m-%d')
StrftimeYMD(d) ==
    FourDigits(d.y) \o <<"-">> \o TwoDigits(d.m) \o <<"-">> \o TwoDigits(d.d)

\* int(ts) in the model's hours: the value of a timestamp column counts
\* hours, any other number counts seconds; <<>> when int() raises
IntHours(col, v) ==
    IF v.type = "integer"
    THEN (IF col \in {"lastAttemptDate", "completeInfoReceivedDate", "notesDate"}
          THEN Some(v.val) ELSE Some(v.val \div 3600))
    ELSE IF IsNumber(Strip(v.val)) THEN Some(NumVal(Strip(v.val)) \div 3600)
    ELSE NoInt

\* export_to_csv's timestamp_to_date (lines 1155-1161) on the value of
\* column col
ExportDate(col, v) ==
    IF v.type = "null" THEN <<>>
    ELSE IF v.type = "text" /\ v.val = <<>> THEN <<>>
    ELSE IF IntHours(col, v) = NoInt THEN <<>>
    ELSE IF FromTimestamp(IntHours(col, v)[1]).ok
         THEN StrftimeYMD(FromTimestamp(IntHours(col, v)[1]))
    ELSE <<>>

\* what csv.writer writes of a value: None as the empty string, a number
\* as its digits (kept as the number), a string as it is
Written(v) == IF v.type = "null" THEN [type |-> "text", val |-> <<>>] ELSE v

\* lines 1199-1205: row_list of a stored row after the conversions
ConvertedRow(ref) ==
    [ k \in 1..Len(SelectList) |->
        IF (k - 1) \in date_columns
        THEN [type |-> "text", val |-> ExportDate(SelectList[k], SqlValue(ref, SelectList[k]))]
        ELSE Written(SqlValue(ref, SelectList[k])) ]

\* export_to_csv (lines 1147-1226); SQLite refuses a SELECT that names a
\* column the table lacks ("no such column"), which the except clause of
\* line 1221 turns into an error result before any file is opened
ExportToCsv ==
    /\ pc = "dashboard"
    /\ IF \E k \in 1..Len(SelectList) : SelectList[k] \notin TableColumns
       THEN /\ result' = [status |-> "error",
                          message |-> <<"n","o"," ","s","u","c","h"," ","c","o","l","u","m","n",":"," ","a","s","s","i","g","n","e","d","P","h","y","s","i","c","i","a","n">>]
            /\ UNCHANGED csv_file
       ELSE /\ csv_file' = [exists |-> TRUE,
                            columns |-> SelectList,
                            rows |-> [i \in 1..Len(referrals) |-> ConvertedRow(referrals[i])]]
            /\ result' = [status |-> "success", rows |-> Len(referrals)]
    /\ UNCHANGED <<rows, pc, row_count, inserted_count, skipped_count,
                   referrals, attempt_history, seq_referrals, is_read_only,
                   current_user, lock_owner, lock_file, now, tz, platform>>
    /\ UNCHANGED <<row, row_out, preVars, roundVars, raceVars, kpiVars>>
    /\ UNCHANGED dateVars

NextExport ==
    \/ ImportSkip
    \/ ImportInsert
    \/ ImportRaise
    \/ ImportCommit
    \/ ExportToCsv

SpecExport == InitSpec /\ [][NextExport]_vars

-----------------------------------------------------------------------------
(* SpecRace: two dashboard instances sharing DB/referrals.lock *)

\* the two running copies of MSFReferrals.py
Instances == {"A", "B"}

\* the name typed at each instance's login dialog
TypedName == [p \in Instances |-> IF p = "A" THEN <<"a","d","m","i","n">> ELSE <<"J","e","n","n","i","a">>]

\* an instance's globals at start (lines 38-43), idle, nothing returned yet
FreshInstance ==
    [ current_user  |-> None,
      is_read_only  |-> FALSE,
      lock_owner    |-> None,
      shutting_down |-> FALSE,
      lpc           |-> "idle",
      username      |-> None,                  \* login's argument
      lock_status   |-> [locked |-> FALSE],    \* login's last lock_status
      result        |-> NoResult ]

\* what the steps of one instance leave alone
raceRest == <<rows, pc, row_count, inserted_count, skipped_count,
              seq_referrals, is_read_only, current_user, lock_owner, result,
              tz, platform, row, row_out, preVars, roundVars, exportVars,
              kpiVars, dateVars>>

InitRace ==
    /\ DateIdle
    /\ tz = -5
    /\ platform = "windows"
    /\ rows = <<>>
    /\ pc = "dashboard"
    /\ row_count = 0
    /\ inserted_count = 0
    /\ skipped_count = 0
    /\ referrals = <<>>
    /\ attempt_history = <<>>
    /\ seq_referrals = 0
    /\ is_read_only = FALSE
    /\ SessionIdle
    /\ row = <<>>
    /\ row_out = NoOutput
    /\ PreIdle
    /\ RoundIdle
    /\ ExportIdle
    /\ KpiIdle
    /\ instances = [p \in Instances |-> FreshInstance]

\* login, lines 109-121: the credentials test and the call of check_lock_file
LoginCheckLock(p, username, entered_hash) ==
    /\ instances[p].lpc = "idle"
    /\ IF \/ Lower(username) \notin DOMAIN VALID_USERS
          \/ entered_hash # VALID_USERS[Lower(username)]
       THEN instances' = [instances EXCEPT
                ![p].result = [status |-> "error",
                               message |-> "Invalid username or password"]]
       ELSE instances' = [instances EXCEPT
                ![p].username = Lower(username),
                ![p].lock_status = check_lock_file,
                ![p].lpc = "checked"]
    /\ UNCHANGED <<lock_file, now, referrals, attempt_history>>
    /\ UNCHANGED raceRest

\* login, lines 123-132: a lock that is not stale makes the session read-only
LoginLocked(p) ==
    /\ instances[p].lpc = "checked"
    /\ instances[p].lock_status.locked
    /\ ~instances[p].lock_status.stale
    /\ instances' = [instances EXCEPT
           ![p].current_user = instances[p].username,
           ![p].is_read_only = TRUE,
           ![p].lock_owner = instances[p].lock_status.user,
           ![p].result = [status |-> "locked",
                          user |-> instances[p].lock_status.user,
                          timestamp |-> instances[p].lock_status.timestamp],
           ![p].username = None,
           ![p].lpc = "idle"]
    /\ UNCHANGED <<lock_file, now, referrals, attempt_history>>
    /\ UNCHANGED raceRest

\* login, lines 134-135: delete_lock_file when the lock was seen stale
LoginDeleteStale(p) ==
    /\ instances[p].lpc = "checked"
    /\ ~(instances[p].lock_status.locked /\ ~instances[p].lock_status.stale)
    /\ lock_file' = IF instances[p].lock_status.locked THEN NoFile ELSE lock_file
    /\ instances' = [instances EXCEPT ![p].lpc = "create"]
    /\ UNCHANGED <<now, referrals, attempt_history>>
    /\ UNCHANGED raceRest

\* login, lines 137-141: create_lock_file and write access
LoginCreateLock(p) ==
    /\ instances[p].lpc = "create"
    /\ lock_file' = create_lock_file(instances[p].username)
    /\ instances' = [instances EXCEPT
           ![p].current_user = instances[p].username,
           ![p].is_read_only = FALSE,
           ![p].result = [status |-> "success",
                          username |-> instances[p].username,
                          readOnly |-> FALSE],
           ![p].username = None,
           ![p].lpc = "idle"]
    /\ UNCHANGED <<now, referrals, attempt_history>>
    /\ UNCHANGED raceRest

\* logout (lines 151-163) of instance p
InstanceLogout(p) ==
    /\ instances[p].lpc = "idle"
    /\ lock_file' = IF ~instances[p].is_read_only THEN NoFile ELSE lock_file
    /\ instances' = [instances EXCEPT
           ![p].current_user = None,
           ![p].is_read_only = FALSE,
           ![p].lock_owner = None,
           ![p].result = [status |-> "success"]]
    /\ UNCHANGED <<now, referrals, attempt_history>>
    /\ UNCHANGED raceRest

\* on_close (lines 1132-1145) of instance p: os._exit kills the process
on_close(p) ==
    /\ instances[p].lpc = "idle"
    /\ IF instances[p].shutting_down
       THEN UNCHANGED <<lock_file, instances>>
       ELSE /\ lock_file' = IF ~instances[p].is_read_only THEN NoFile ELSE lock_file
            /\ instances' = [instances EXCEPT ![p].shutting_down = TRUE,
                                              ![p].lpc = "killed"]
    /\ UNCHANGED <<now, referrals, attempt_history>>
    /\ UNCHANGED raceRest

\* shutdown (lines 1228-1235) of instance p, run by atexit
shutdown(p) ==
    /\ instances[p].lpc = "idle"
    /\ IF instances[p].shutting_down
       THEN UNCHANGED <<lock_file, instances>>
       ELSE /\ lock_file' = IF ~instances[p].is_read_only THEN NoFile ELSE lock_file
            /\ instances' = [instances EXCEPT ![p].shutting_down = TRUE,
                                              ![p].lpc = "exited"]
    /\ UNCHANGED <<now, referrals, attempt_history>>
    /\ UNCHANGED raceRest

\* update_referral (lines 798-876) called in instance p; refresh_lock_file
\* (lines 209-212) reads p's globals
InstanceUpdate(p, id, data, hist) ==
    /\ instances[p].lpc = "idle"
    /\ IF instances[p].is_read_only
       THEN /\ instances' = [instances EXCEPT
                   ![p].result = [status |-> "error",
                                  message |-> "Cannot update referrals in read-only mode"]]
            /\ UNCHANGED <<referrals, attempt_history, lock_file>>
       ELSE /\ referrals' = UpdateRows(referrals, id, WithCounts(data, hist))
            /\ attempt_history' = DeleteHistory(attempt_history, id) \o DashHistory(id, hist)
            /\ lock_file' = IF instances[p].current_user # None
                            THEN create_lock_file(instances[p].current_user)
                            ELSE lock_file
            /\ instances' = [instances EXCEPT ![p].result = [status |-> "success"]]
    /\ UNCHANGED now
    /\ UNCHANGED raceRest

NextRace ==
    \/ \E p \in Instances, entered_hash \in EnteredHashes :
          LoginCheckLock(p, TypedName[p], entered_hash)
    \/ \E p \in Instances : LoginLocked(p)
    \/ \E p \in Instances : LoginDeleteStale(p)
    \/ \E p \in Instances : LoginCreateLock(p)
    \/ \E p \in Instances : InstanceLogout(p)
    \/ \E p \in Instances : on_close(p)
    \/ \E p \in Instances : shutdown(p)
    \/ \E p \in Instances : InstanceUpdate(p, 1, LockData, LockHist)
    \/ Tick(2)

SpecRace == InitRace /\ [][NextRace]_vars

-----------------------------------------------------------------------------
(* SpecKpi: MSFReferralsKPIsDashboard.py, the single-instance lock *)

\* seconds after which a lock file counts as stale (line 29)
LOCK_TIMEOUT == 300

\* time.sleep(5) of the thread remove_lock (line 77)
RemoveLockDelay == 5

\* the last second of the model's clock
MaxKpiTime == 310

\* the pids of the KPI dashboard processes one user starts
KpiPids == {1, 2}

\* the pid of an earlier process that was killed and left its lock file
DeadPid == 3

\* a process before it is started
KpiOff == [kpc |-> "off", printed |-> <<>>, timer |-> NoInt, shutting_down |-> FALSE]

\* psutil.pid_exists(pid)
pid_exists(pid) ==
    /\ pid \in KpiPids
    /\ kpi_instances[pid].kpc \notin {"off", "exited", "killed"}

\* is_lock_file_stale (lines 34-39)
is_lock_file_stale ==
    IF ~kpi_lock_file.exists THEN FALSE
    ELSE kpi_time - kpi_lock_file.mtime > LOCK_TIMEOUT

\* cleanup_lock_file (lines 41-47): the lock file after it
cleanup_lock_file == NoFile

\* what the steps of the KPI dashboard leave alone
kpiRest == <<importVars, tz, platform, row, row_out, preVars, roundVars,
             exportVars, raceVars, dateVars>>

InitKpi ==
    /\ ImportIdle
    /\ DateIdle
    /\ tz = -5
    /\ platform = "windows"
    /\ row = <<>>
    /\ row_out = NoOutput
    /\ PreIdle
    /\ RoundIdle
    /\ ExportIdle
    /\ RaceIdle
    /\ kpi_instances = [p \in KpiPids |-> KpiOff]
    /\ kpi_lock_file \in { NoFile, [exists |-> TRUE, pid |-> DeadPid, mtime |-> 0] }
    /\ kpi_time = 0

\* the user starts process p: __main__ is entered (line 566)
KpiStart(p) ==
    /\ kpi_instances[p].kpc = "off"
    /\ kpi_instances' = [kpi_instances EXCEPT ![p].kpc = "check"]
    /\ UNCHANGED <<kpi_lock_file, kpi_time>>
    /\ UNCHANGED kpiRest

\* create_lock_file, lines 52-69: the existing lock.  sys.exit(1) of line
\* 67 raises SystemExit inside the try of line 59, whose bare except (line
\* 68) catches it and unlinks the file: the process goes on to line 72.
KpiCheckLock(p) ==
    /\ kpi_instances[p].kpc = "check"
    /\ IF ~kpi_lock_file.exists
       THEN /\ kpi_instances' = [kpi_instances EXCEPT ![p].kpc = "write"]
            /\ UNCHANGED kpi_lock_file
       ELSE IF is_lock_file_stale
       THEN /\ kpi_instances' = [kpi_instances EXCEPT
                   ![p].kpc = "write",
                   ![p].printed = <<"R","e","m","o","v","i","n","g"," ","s","t","a","l","e"," ","l","o","c","k"," ","f","i","l","e">>]
            /\ kpi_lock_file' = NoFile
       ELSE IF ~pid_exists(kpi_lock_file.pid)
       THEN /\ kpi_instances' = [kpi_instances EXCEPT
                   ![p].kpc = "write",
                   ![p].printed = <<"P","r","o","c","e","s","s"," ","n","o"," ","l","o","n","g","e","r"," ","e","x","i","s","t","s",","," ","r","e","m","o","v","i","n","g"," ","l","o","c","k">>]
            /\ kpi_lock_file' = NoFile
       ELSE /\ kpi_instances' = [kpi_instances EXCEPT
                   ![p].kpc = "write",
                   ![p].printed = <<"A","n","o","t","h","e","r"," ","i","n","s","t","a","n","c","e"," ","i","s"," ","a","l","r","e","a","d","y"," ","r","u","n","n","i","n","g">>]
            /\ kpi_lock_file' = NoFile
    /\ UNCHANGED kpi_time
    /\ UNCHANGED kpiRest

\* create_lock_file, lines 71-79, and __main__ up to eel.start: the pid is
\* written, the thread remove_lock is started, the window opens
KpiWriteLock(p) ==
    /\ kpi_instances[p].kpc = "write"
    /\ kpi_lock_file' = [exists |-> TRUE, pid |-> p, mtime |-> kpi_time]
    /\ kpi_instances' = [kpi_instances EXCEPT
           ![p].kpc = "running",
           ![p].timer = Some(kpi_time + RemoveLockDelay)]
    /\ UNCHANGED kpi_time
    /\ UNCHANGED kpiRest

\* remove_lock (lines 76-78) of process p, once its sleep is over
KpiRemoveLock(p) ==
    /\ kpi_instances[p].kpc = "running"
    /\ kpi_instances[p].timer # NoInt
    /\ kpi_time >= kpi_instances[p].timer[1]
    /\ kpi_lock_file' = cleanup_lock_file
    /\ kpi_instances' = [kpi_instances EXCEPT ![p].timer = NoInt]
    /\ UNCHANGED kpi_time
    /\ UNCHANGED kpiRest

\* on_close (lines 544-556) of process p
KpiOnClose(p) ==
    /\ kpi_instances[p].kpc = "running"
    /\ IF kpi_instances[p].shutting_down
       THEN UNCHANGED <<kpi_lock_file, kpi_instances>>
       ELSE /\ kpi_lock_file' = cleanup_lock_file
            /\ kpi_instances' = [kpi_instances EXCEPT
                   ![p].shutting_down = TRUE,
                   ![p].timer = NoInt,
                   ![p].kpc = "killed"]
    /\ UNCHANGED kpi_time
    /\ UNCHANGED kpiRest

\* shutdown (lines 558-564) of process p, run by atexit
KpiShutdown(p) ==
    /\ kpi_instances[p].kpc = "running"
    /\ IF kpi_instances[p].shutting_down
       THEN UNCHANGED <<kpi_lock_file, kpi_instances>>
       ELSE /\ kpi_lock_file' = cleanup_lock_file
            /\ kpi_instances' = [kpi_instances EXCEPT
                   ![p].shutting_down = TRUE,
                   ![p].timer = NoInt,
                   ![p].kpc = "exited"]
    /\ UNCHANGED kpi_time
    /\ UNCHANGED kpiRest

\* time passes; a sleep that is over ends before more time passes
KpiTick(seconds) ==
    /\ kpi_time + seconds <= MaxKpiTime
    /\ \A p \in KpiPids :
          IF kpi_instances[p].timer = NoInt THEN TRUE
          ELSE kpi_time < kpi_instances[p].timer[1]
    /\ kpi_time' = kpi_time + seconds
    /\ UNCHANGED <<kpi_instances, kpi_lock_file>>
    /\ UNCHANGED kpiRest

NextKpi ==
    \/ \E p \in KpiPids : KpiStart(p)
    \/ \E p \in KpiPids : KpiCheckLock(p)
    \/ \E p \in KpiPids : KpiWriteLock(p)
    \/ \E p \in KpiPids : KpiRemoveLock(p)
    \/ \E p \in KpiPids : KpiOnClose(p)
    \/ \E p \in KpiPids : KpiShutdown(p)
    \/ \E seconds \in {RemoveLockDelay, LOCK_TIMEOUT} : KpiTick(seconds)

SpecKpi == InitKpi /\ [][NextKpi]_vars

-----------------------------------------------------------------------------
(* The claims *)

\* C1: an accepted row's status follows from the trimmed 'Referral Complete'
\* value and from whether the 1st-attempt date and the complete-info date
\* are non-empty: Complete gives Completed; Cancelled or Deferred gives
\* Deferred; Pending gives Info Received when the complete-info date is
\* non-empty, else Pending when the 1st-attempt date is non-empty, else New;
\* every other value gives New.
C1_StatusDerivation ==
    row_out.kind = "inserted" =>
        LET old_status == Strip(Get(row, "Referral Complete"))
            first  == Strip(Get(row, "1st Attempt to reach Patient/Referring MD")) # <<>>
            info   == Strip(Get(row, "Date Complete Information received")) # <<>>
            status == row_out.referral.referralStatus
        IN  /\ old_status = <<"C","o","m","p","l","e","t","e">> => status = "Completed"
            /\ old_status \in { <<"C","a","n","c","e","l","l","e","d">>, <<"D","e","f","e","r","r","e","d">> } => status = "Deferred"
            /\ old_status = <<"P","e","n","d","i","n","g">> /\ info => status = "Info Received"
            /\ old_status = <<"P","e","n","d","i","n","g">> /\ ~info /\ first => status = "Pending"
            /\ old_status = <<"P","e","n","d","i","n","g">> /\ ~info /\ ~first => status = "New"
            /\ old_status \notin { <<"C","o","m","p","l","e","t","e">>, <<"C","a","n","c","e","l","l","e","d">>, <<"D","e","f","e","r","r","e","d">>,
                                   <<"P","e","n","d","i","n","g">> } => status = "New"

\* a pending row with both dates was imported as Info Received
C1_Witness ==
    /\ row_out.kind = "inserted"
    /\ Strip(Get(row, "Referral Complete")) = <<"P","e","n","d","i","n","g">>
    /\ Get(row, "Referral Complete") # <<"P","e","n","d","i","n","g">>
    /\ Strip(Get(row, "1st Attempt to reach Patient/Referring MD")) # <<>>
    /\ Strip(Get(row, "Date Complete Information received")) # <<>>
    /\ row_out.referral.referralStatus = "Info Received"

\* C2: every referral the import writes has a status among New, Pending,
\* Information Completed, Completed, Deferred and a type among New,
\* Previous, Partner.
C2_ClosedSets ==
    row_out.kind = "inserted" =>
        /\ row_out.referral.referralStatus \in
              { "New", "Pending", "Information Completed", "Completed", "Deferred" }
        /\ row_out.referral.referralType \in { "New", "Previous", "Partner" }

\* C3: the type is chosen by case-insensitive substring match on 'New or
\* Returning', the first match winning: 'prev pt', 'previous', 'returning'
\* or 'return' give Previous; otherwise 'partner' gives Partner; otherwise
\* New.  'Prev Pt visit' is Previous, 'New Partner' is Partner, '' is New.
C3_TypeFirstMatch ==
    row_out.kind = "inserted" =>
        LET text == Strip(Get(row, "New or Returning"))
            prev == \E x \in { <<"p","r","e","v"," ","p","t">>, <<"p","r","e","v","i","o","u","s">>, <<"r","e","t","u","r","n","i","n","g">>, <<"r","e","t","u","r","n">> } :
                        Contains(Lower(text), x)
            partner == Contains(Lower(text), <<"p","a","r","t","n","e","r">>)
            type == row_out.referral.referralType
        IN  /\ prev => type = "Previous"
            /\ ~prev /\ partner => type = "Partner"
            /\ ~prev /\ ~partner => type = "New"
            /\ text = <<"P","r","e","v"," ","P","t"," ","v","i","s","i","t">> => type = "Previous"
            /\ text = <<"N","e","w"," ","P","a","r","t","n","e","r">> => type = "Partner"
            /\ text = <<>> => type = "New"

\* a row whose text names both 'new' and 'partner' was imported as Partner
C3_Witness ==
    /\ row_out.kind = "inserted"
    /\ Strip(Get(row, "New or Returning")) = <<"N","e","w"," ","P","a","r","t","n","e","r">>
    /\ row_out.referral.referralType = "Partner"

\* C4: after any sequence of import, add_referral, update_referral and
\* delete_referral, every stored referral's phoneAttempts is the number of
\* its attempt_history rows with mode Phone or Phone call, and its
\* emailAttempts the number of those with mode E-Mail or Email.
C4_AttemptCounts ==
    \A i \in 1..Len(referrals) :
        /\ referrals[i].phoneAttempts =
              Cardinality({ k \in 1..Len(attempt_history) :
                              /\ attempt_history[k].referralID = referrals[i].referralID
                              /\ attempt_history[k].attemptMode
                                    \in { <<"P","h","o","n","e">>, <<"P","h","o","n","e"," ","c","a","l","l">> } })
        /\ referrals[i].emailAttempts =
              Cardinality({ k \in 1..Len(attempt_history) :
                              /\ attempt_history[k].referralID = referrals[i].referralID
                              /\ attempt_history[k].attemptMode
                                    \in { <<"E","-","M","a","i","l">>, <<"E","m","a","i","l">> } })

\* C5: a step of a write session that deletes a referral leaves no
\* attempt_history row of that referral.
C5_DeleteCascades ==
    [][ \A id \in 1..MaxReferralID :
          ( /\ pc = "dashboard"
            /\ ~is_read_only
            /\ \E i \in 1..Len(referrals) : referrals[i].referralID = id
            /\ \A i \in 1..Len(referrals') : referrals'[i].referralID # id )
          => \A k \in 1..Len(attempt_history') : attempt_history'[k].referralID # id
      ]_vars

\* C6: at every point of the stream the rows read are the rows imported
\* plus the rows skipped, and once the import of N rows, K of them without
\* a last name, has ended, K rows were skipped and N-K referrals created.
C6_RowAccounting ==
    LET K == Cardinality({ i \in 1..Len(rows) : RowSkipped(rows[i]) })
    IN  /\ row_count = inserted_count + skipped_count
        /\ pc \in {"dashboard", "crashed"} =>
              /\ skipped_count = K
              /\ inserted_count = Len(rows) - K
        /\ pc = "crashed" => Len(referrals) = Len(rows) - K

\* C7: no exception leaves the processing of a row, whatever the row: it is
\* skipped or imported.
C7_NoRowException ==
    row_out.kind # "raised"

\* C8: the two-digit year of a DD-MMM-YY date is resolved with the pivot
\* 00-49 -> 2000-2049 and 50-99 -> 1950-1999: the timestamp stored is the
\* one of local midnight (or, by the fallback, of UTC midnight) of the date
\* in that year.
C8_CenturyPivot50 ==
    (dpc = "stored" /\ StrptimeDMY(Strip(date_str)).ok) =>
        LET d    == StrptimeDMY(Strip(date_str))
            yy   == d.y % 100
            year == IF yy <= 49 THEN 2000 + yy ELSE 1900 + yy
            want == NaiveHours([d EXCEPT !.y = year])
        IN  ts \in { Some(want), Some(want - tz) }

\* C9: a valid DD-MMM-YY string imported and exported again is a string of
\* the same calendar date, never the empty string.
C9_DateRoundTrip ==
    (dpc = "exported" /\ StrptimeDMY(Strip(date_str)).ok) =>
        /\ date_out # <<>>
        /\ StrptimeDMY(date_out) = StrptimeDMY(Strip(date_str))

\* C10: a valid date before 1970-01-01, in either format, gets an integer
\* timestamp, and of two valid dates the earlier gets the smaller
\* timestamp.
C10_Pre1970Monotonic ==
    dpc = "stored" =>
        LET d1 == IF StrptimeDMY(Strip(date_str)).ok
                  THEN StrptimeDMY(Strip(date_str)) ELSE StrptimeISO(Strip(date_str))
            d2 == IF StrptimeDMY(Strip(date_str2)).ok
                  THEN StrptimeDMY(Strip(date_str2)) ELSE StrptimeISO(Strip(date_str2))
        IN  /\ (d1.ok /\ d1.y < 1970) => ts # NoInt
            /\ (d1.ok /\ d2.ok /\ NaiveHours(d1) < NaiveHours(d2)
                /\ ts # NoInt /\ ts2 # NoInt) => ts[1] < ts2[1]

\* C11: each of the three slots of an accepted row emits an attempt if and
\* only if its trimmed date or its trimmed comment is non-empty, and the
\* attempts are stored in slot order (between 0 and 3 of them).
C11_SlotAttempts ==
    row_out.kind = "inserted" =>
        LET Slot(date_col, comment_col) ==
                IF Strip(Get(row, date_col)) # <<>> \/ Strip(Get(row, comment_col)) # <<>>
                THEN << [date    |-> IF Strip(Get(row, date_col)) # <<>>
                                     THEN parse_date_to_timestamp(Strip(Get(row, date_col)))
                                     ELSE NoInt,
                         comment |-> Strip(Get(row, comment_col))] >>
                ELSE <<>>
            expected ==
                Slot("1st Attempt to reach Patient/Referring MD", "Comments")
                \o Slot("2nd Attempt to reach Patient/Referring MD", "Comments2")
                \o Slot("3rd Attempt to reach Patient/Referring MD", "Comments4")
            stored == ImportHistory(1, row_out.attempts)
        IN  /\ Len(row_out.attempts) <= 3
            /\ Len(stored) = Len(expected)
            /\ \A i \in 1..Len(stored) :
                  /\ stored[i].attemptDate = expected[i].date
                  /\ stored[i].attemptComment = expected[i].comment

\* a row without a 1st attempt, with a 2nd attempt that has only a comment
\* and with a 3rd attempt that has only a date was imported with two attempts
C11_Witness ==
    /\ row_out.kind = "inserted"
    /\ Strip(Get(row, "1st Attempt to reach Patient/Referring MD")) = <<>>
    /\ Strip(Get(row, "Comments")) = <<>>
    /\ Strip(Get(row, "2nd Attempt to reach Patient/Referring MD")) = <<>>
    /\ Get(row, "Comments2") = <<"s","e","c","o","n","d">>
    /\ Get(row, "3rd Attempt to reach Patient/Referring MD") = <<"1","6","-","S","e","p","-","2","4">>
    /\ Strip(Get(row, "Comments4")) = <<>>
    /\ Len(row_out.attempts) = 2
    /\ row_out.attempts[1].comment = <<"s","e","c","o","n","d">>
    /\ row_out.attempts[2].date # NoInt

C13_ModeClosedSet ==
    row_out.kind = "inserted" =>
        \A i \in 1..Len(row_out.attempts) :
            row_out.attempts[i].mode \in
                { <<"P","h","o","n","e">>, <<"E","-","M","a","i","l">>, <<"F","a","x">>, <<"I","n","-","P","e","r","s","o","n">>, <<"M","a","i","l">>,
                  <<"T","e","x","t","/","S","M","S">>, <<"O","t","h","e","r">> }

\* C14: a slot with a comment and no date is backfilled from the first valid
\* one of: the complete-information date, the nearest earlier slot's date
\* (for the 3rd slot the 2nd slot's before the 1st slot's), the date received.
C14_BackfillOrder ==
    ppc \in { "cleaned", "imported" } =>
        LET Valid(r, col) == Strip(Get(r, col)) # <<>> /\ parse_date(Strip(Get(r, col))).ok
            Nearest(r, k) == CHOOSE j \in 1..(k - 1) :
                                /\ Valid(r, PreAttempts[j].date_field)
                                /\ \A i \in (j + 1)..(k - 1) :
                                      ~Valid(r, PreAttempts[i].date_field)
            Stated(r, k) ==
                IF Valid(r, "Date Complete Information received")
                THEN Strip(Get(r, "Date Complete Information received"))
                ELSE IF \E j \in 1..(k - 1) : Valid(r, PreAttempts[j].date_field)
                THEN Strip(Get(r, PreAttempts[Nearest(r, k)].date_field))
                ELSE IF Valid(r, "Date Referral Received")
                THEN Strip(Get(r, "Date Referral Received"))
                ELSE <<>>
        IN  \A k \in 1..3 :
                SlotWantsDate(DictRow(row), k) =>
                    Get(cleaned_rows[1], PreAttempts[k].date_field)
                        = Stated(cleaned_rows[1], k)

\* C15: a slot with a comment and no date for which no fallback source holds
\* a valid date keeps its empty date, and the row is recorded in the flagged
\* list.
C15_UnresolvedFlagged ==
    ppc \in { "cleaned", "imported" } =>
        \A k \in 1..3 :
            (SlotWantsDate(DictRow(row), k) /\ ~InferredDate(cleaned_rows[1], k).ok) =>
                /\ Get(cleaned_rows[1], PreAttempts[k].date_field) = <<>>
                /\ \E n \in 1..Len(changes.flagged_missing_dates) :
                      changes.flagged_missing_dates[n].row = idx

\* C16: the audit list has an entry for every row in which a date was
\* backfilled and for every row in which a missing contact mode was set to
\* 'Other'; the entry carries the row number, the patient name, the field
\* backfilled, the value used and the field the value came from.
C16_AuditComplete ==
    (ppc \in { "cleaned", "imported" }
     /\ (changes.inferred_dates > 0 \/ changes.set_other_mode > 0)) =>
        \E n \in 1..Len(changes.flagged_missing_dates) :
            /\ changes.flagged_missing_dates[n].row = idx
            /\ changes.flagged_missing_dates[n].patient
                  = Strip(Get(row, "FIRST NAME") \o <<" ">> \o Get(row, "LAST NAME"))
            /\ changes.flagged_missing_dates[n].attempt
                  \in { PreAttempts[k].date_field : k \in 1..3 }
            /\ changes.flagged_missing_dates[n].inferred_date # <<>>
            /\ changes.flagged_missing_dates[n].date_source # ""

\* C17: a row with a 1st-attempt comment, no 1st-attempt date and an empty
\* 'Email' field (and no other attempt) gives, after preprocess_csv and
\* convert_csv_to_sqlite, exactly one attempt with mode Phone, the original
\* comment, and the backfilled date when a fallback source validates, else
\* no date together with an audit entry.
C17_CommentOnlyAttempt ==
    (/\ ppc = "imported"
     /\ Strip(Get(row, "Comments")) # <<>>
     /\ Strip(Get(row, "1st Attempt to reach Patient/Referring MD")) = <<>>
     /\ Strip(Get(row, "Email")) = <<>>
     /\ \A k \in 2..3 : /\ Strip(Get(row, PreAttempts[k].date_field)) = <<>>
                        /\ Strip(Get(row, PreAttempts[k].comment_field)) = <<>>) =>
        /\ row_out.kind = "inserted"
        /\ Len(row_out.attempts) = 1
        /\ row_out.attempts[1].mode = <<"P","h","o","n","e">>
        /\ row_out.attempts[1].comment = Strip(Get(row, "Comments"))
        /\ IF InferredDate(DictRow(row), 1).ok
           THEN row_out.attempts[1].date
                    = parse_date_to_timestamp(InferredDate(DictRow(row), 1).inferred_date)
           ELSE /\ row_out.attempts[1].date = NoInt
                /\ \E n \in 1..Len(changes.flagged_missing_dates) :
                      changes.flagged_missing_dates[n].row = idx

C19_ReadOnlyRejects ==
    [][ (/\ is_read_only
         /\ \/ AddReferral(LockData, LockHist)
            \/ UpdateReferral(1, LockData, LockHist)
            \/ DeleteReferral(1)) =>
            /\ result'.status = "error"
            /\ referrals' = referrals
            /\ attempt_history' = attempt_history
            /\ lock_file' = lock_file ]_vars

\* a delete was refused in a read-only session while both tables had rows
\* and another user's lock file existed
C19_Witness ==
    /\ is_read_only
    /\ result = [status |-> "error",
                 message |-> "Cannot delete referrals in read-only mode"]
    /\ referrals # <<>>
    /\ attempt_history # <<>>
    /\ lock_file.exists
    /\ lock_file.user # current_user

\* C20: after a successful update_referral of an existing referral its
\* attempt_history rows are the supplied attempts in the supplied order
\* (none for an empty list or a missing key), and the attempts of every
\* other referral are unchanged.
C20_UpdateReplacesAttempts ==
    [][ \A id \in {1, 2}, sent \in EditRequests :
          (/\ \E i \in 1..Len(referrals) : referrals[i].referralID = id
           /\ result'.status = "success"
           /\ UpdateReferral(id, LockData, PopAttemptHistory(sent))) =>
            /\ \E stored \in { HistoryOf(attempt_history', id) } :
                  /\ Len(stored) = (IF sent = <<>> THEN 0 ELSE Len(sent[1]))
                  /\ \A i \in 1..Len(stored) :
                        /\ stored[i].attemptMode = DictGet(sent[1][i], "mode", <<>>)
                        /\ stored[i].attemptComment = DictGet(sent[1][i], "comment", <<>>)
                        /\ ("date" \in DOMAIN sent[1][i]) = (stored[i].attemptDate # NoInt)
            /\ \A other \in (1..MaxReferralID) \ {id} :
                  HistoryOf(attempt_history', other) = HistoryOf(attempt_history, other) ]_vars

\* referral 1, added before referral 2, has its two attempts stored after
\* referral 2's attempt: an update replaced them, the e-mail first
C20_Witness ==
    /\ Len(referrals) = 2
    /\ Len(attempt_history) = 3
    /\ attempt_history[1].referralID = 2
    /\ attempt_history[2].referralID = 1
    /\ attempt_history[2].attemptMode = <<"E","m","a","i","l">>
    /\ attempt_history[3].referralID = 1
    /\ attempt_history[3].attemptMode = <<"P","h","o","n","e">>

\* C21: a legacy row imported and exported again has its original
\* 'Referral Complete' value, for every legacy value (Complete, Pending,
\* Cancelled, Deferred, empty) and every combination of a present or absent
\* 1st-attempt date and complete-information date.
C21_StatusRoundTrip ==
    (exported_row # <<>> /\ Get(row, "Referral Complete") \in LegacyStatuses) =>
        Get(exported_row, "Referral Complete") = Get(row, "Referral Complete")

\* C29: importing the exported row gives the same status, the same type and
\* the same ordered attempts (date, mode, comment) as importing the
\* original row.
C29_ReimportIdempotent ==
    reimported # NoOutput =>
        /\ reimported.kind = "inserted"
        /\ reimported.referral.referralStatus = row_out.referral.referralStatus
        /\ reimported.referral.referralType = row_out.referral.referralType
        /\ Len(reimported.attempts) = Len(row_out.attempts)
        /\ \A i \in 1..Len(reimported.attempts) :
              /\ reimported.attempts[i].date = row_out.attempts[i].date
              /\ reimported.attempts[i].mode = row_out.attempts[i].mode
              /\ reimported.attempts[i].comment = row_out.attempts[i].comment


\* C23: after any sequence of CSV import, add_referral and update_referral
\* each referral's lastAttemptDate, lastAttemptMode and lastAttemptComment
\* are the date, mode and comment of the last attempt_history row of the
\* referral, and null or empty when it has none.
C23_LastAttemptDenormalized ==
    \A i \in 1..Len(referrals) :
        \E stored \in { HistoryOf(attempt_history, referrals[i].referralID) } :
            IF stored = <<>>
            THEN /\ referrals[i].lastAttemptDate = NoInt
                 /\ referrals[i].lastAttemptMode \in {None, <<>>}
                 /\ referrals[i].lastAttemptComment \in {None, <<>>}
            ELSE /\ referrals[i].lastAttemptDate = stored[Len(stored)].attemptDate
                 /\ OrElse(referrals[i].lastAttemptMode, <<>>)
                       = OrElse(stored[Len(stored)].attemptMode, <<>>)
                 /\ OrElse(referrals[i].lastAttemptComment, <<>>)
                       = OrElse(stored[Len(stored)].attemptComment, <<>>)

\* C28: update_referral called in a write session with an id that matches no
\* referral row leaves the referrals table and the attempt_history table
\* unchanged, so every attempt_history row references an existing referral.
C28_UpdateUnknownId ==
    [][ \A id \in {1, 2}, sent \in EditRequests :
          (/\ ~is_read_only
           /\ \A i \in 1..Len(referrals) : referrals[i].referralID # id
           /\ UpdateReferral(id, LockData, PopAttemptHistory(sent))) =>
            /\ referrals' = referrals
            /\ attempt_history' = attempt_history
            /\ \A k \in 1..Len(attempt_history') :
                  \E i \in 1..Len(referrals') :
                      referrals'[i].referralID = attempt_history'[k].referralID ]_vars

\* C26: add_referral, update_referral and delete_referral change the
\* tables only in a session that holds the lock (its last login returned
\* 'success' with write access and it has not logged out since); before a
\* login and after a logout they change nothing.
C26_WritesNeedLock ==
    [][ (/\ \/ AddReferral(LockData, LockHist)
            \/ UpdateReferral(1, LockData, LockHist)
            \/ DeleteReferral(1)
         /\ \/ referrals' # referrals
            \/ attempt_history' # attempt_history) =>
            /\ current_user \in DOMAIN VALID_USERS
            /\ ~is_read_only ]_vars

\* C24: logout, on_close and shutdown delete the lock file only when the
\* calling instance acquired it (its last login returned 'success'): an
\* instance that never logged in, or that is read-only, leaves another
\* instance's lock file in place.
C24_DeleteOwnLockOnly ==
    [][ \A p \in Instances :
          (/\ lock_file.exists
           /\ lock_file' = NoFile
           /\ InstanceLogout(p) \/ on_close(p) \/ shutdown(p)) =>
            /\ instances[p].current_user \in DOMAIN VALID_USERS
            /\ ~instances[p].is_read_only ]_vars

\* C25: while no lock is older than 4 hours, at most one of two instances
\* that log in with valid credentials has write access after a 'success'
\* login, for every interleaving of check_lock_file, delete_lock_file and
\* create_lock_file.
C25_OneWriter ==
    now <= LOCK_STALE_HOURS =>
        Cardinality({ p \in Instances :
                        /\ instances[p].lpc = "idle"
                        /\ instances[p].current_user \in DOMAIN VALID_USERS
                        /\ ~instances[p].is_read_only }) <= 1

\* C27: once instance q has taken over the stale lock of instance p's user
\* and while q has write access and the lock file names q's user, a
\* successful update_referral of p, which still has write access, leaves
\* the lock file as it is.
C27_TakeoverKeepsLock ==
    [][ \A p \in Instances, q \in Instances :
          (/\ p # q
           /\ instances[q].lpc = "idle"
           /\ instances[q].current_user \in DOMAIN VALID_USERS
           /\ ~instances[q].is_read_only
           /\ instances[q].lock_status.locked
           /\ instances[q].lock_status.stale
           /\ instances[q].lock_status.user = instances[p].current_user
           /\ lock_file.exists
           /\ lock_file.user = instances[q].current_user
           /\ ~instances[p].is_read_only
           /\ InstanceUpdate(p, 1, LockData, LockHist)) =>
            lock_file' = lock_file ]_vars

\* C30: while one KPI dashboard process of a user is running, another
\* process the same user starts finds the lock and exits in
\* create_lock_file: at most one process runs at any time, however long
\* the first has been running.
C30_KpiSingleInstance ==
    [][ \A p \in KpiPids :
          (/\ \E q \in KpiPids \ {p} : kpi_instances[q].kpc = "running"
           /\ KpiCheckLock(p)) =>
            /\ kpi_instances'[p].kpc = "exited"
            /\ kpi_lock_file' = kpi_lock_file ]_vars

\* C22: export_to_csv writes every stored row, with exactly the columns
\* addedToDBDate, referralDate, receivedDate, lastAttemptDate,
\* faxedBackDate, completeInfoReceivedDate, referralCompleteDate and
\* notesDate of its SELECT list as YYYY-MM-DD strings and the stored value
\* of every other selected column unchanged.
C22_ExportDateColumns ==
    [][ ExportToCsv =>
          /\ result'.status = "success"
          /\ csv_file'.exists
          /\ Len(csv_file'.rows) = Len(referrals)
          /\ \A i \in 1..Len(referrals), k \in 1..Len(SelectList) :
                IF SelectList[k] \in { "addedToDBDate", "referralDate", "receivedDate",
                                       "lastAttemptDate", "faxedBackDate",
                                       "completeInfoReceivedDate",
                                       "referralCompleteDate", "notesDate" }
                THEN /\ csv_file'.rows[i][k].type = "text"
                     /\ csv_file'.rows[i][k].val =
                           ExportDate(SelectList[k], SqlValue(referrals[i], SelectList[k]))
                ELSE csv_file'.rows[i][k] = Written(SqlValue(referrals[i], SelectList[k])) ]_vars
=============================================================================
